---- MODULE Spec2Model ----
(***************************************************************************)
(* Retrieval-and-evidence layer of the document question-answering         *)
(* service: hybrid ranker (hybrid_ranker.py), the two retrievers and their *)
(* orchestration (bm25_retrieval.py, vector_retrieval.py, rag_service.py,  *)
(* db/session.py, embeddings.py) and the query-embedding cache.            *)
(*                                                                         *)
(* Three specifications share the module:                                  *)
(*   SpecRank   HybridRanker.rank as a function of its arguments           *)
(*   SpecQuery  RAGService._retrieve_chunks: the two retriever coroutines  *)
(*              run by asyncio.gather, then the ranker                     *)
(*   SpecCache  VectorRetriever._get_query_embedding on one long-lived     *)
(*              retriever with concurrent callers, and the rag_query       *)
(*              entry point, which builds a new RAGService per request    *)
(*                                                                         *)
(* Floats are modelled in fixed point: a score x is the integer x * Scale. *)
(***************************************************************************)
EXTENDS Integers, Sequences, FiniteSets, TLC

\* ------------------------------------------------------------------ bounds
\* longest sparse / dense result list enumerated
MaxLen == 2
\* largest limit argument enumerated (-1 .. MaxLimit)
MaxLimit == 4

\* fixed-point unit of hybrid scores
Scale == 1000 * 100

\* Python's None in a string-valued position
None == "None"

\* Python's None in a number-valued position (ranks, page numbers and raw
\* scores of the model are all >= 0)
NoInt == 0 - 1

VARIABLES
    \* ---- SpecRank: one call of HybridRanker.rank
    bm25_results,       \* argument: sequence of BM25Result
    vector_results,     \* argument: sequence of VectorResult
    limit,              \* argument
    diversity_factor,   \* argument, in tenths (1 = 0.1)
    rank_pc,            \* "call" | "returned"
    final_results,      \* return value of rank
    set_order           \* iteration order of the set all_chunk_ids in that call

rankVars == <<bm25_results, vector_results, limit, diversity_factor, rank_pc,
              final_results, set_order>>

VARIABLES
    \* ---- SpecQuery: RAGService._retrieve_chunks on one RAGService
    db_pool,            \* session._pool: "none" | "pool"
    never_responds,     \* the collaborator that never answers, or "none"
    question,           \* the query text of the running query
    q_pc,               \* "idle" | "gather" | "ranked"
    task_pc,            \* per retriever coroutine: where it is suspended
    task_result,        \* per retriever coroutine: the list it returned
    embed_attempt,      \* attempt of _generate_batch_embeddings (0-based)
    service_cache,      \* keys of self.vector_retriever._embedding_cache
    rank_args,          \* the lists handed to hybrid_ranker.rank
    query_results,      \* return value of _retrieve_chunks
    queries_done,       \* queries completed in the model
    via_entry,          \* the running query came through rag_query
    served,             \* cache keys embedded by completed rag_query requests
    streaming,          \* the running query is a query_streaming call
    query_outcome       \* what the caller of the last query received

queryVars == <<db_pool, never_responds, question, q_pc, task_pc, task_result,
               embed_attempt, service_cache, rank_args, query_results, queries_done,
               via_entry, served, streaming, query_outcome>>

VARIABLES
    \* ---- SpecCache: _get_query_embedding on one VectorRetriever
    embedding_cache,    \* keys of self._embedding_cache, in dict order
    call_pc,            \* per caller: "idle" | "awaiting" (generate_embeddings)
    call_key,           \* per caller: its local cache_key
    next_letter,        \* smallest letter no caller has asked about yet
    last_op             \* the last thing a caller did to the cache

cacheVars == <<embedding_cache, call_pc, call_key, next_letter, last_op>>

VARIABLES
    \* ---- SpecWeights: one construction HybridRanker(bm25_weight, vector_weight)
    bm25_weight_arg,    \* argument, in units of 1/WeightUnit
    vector_weight_arg,  \* argument, in units of 1/WeightUnit
    ctor_pc,            \* "call" | "constructed" | "raised"
    bm25_weight,        \* self.bm25_weight, a fraction [num, den]
    vector_weight       \* self.vector_weight, a fraction [num, den]

weightVars == <<bm25_weight_arg, vector_weight_arg, ctor_pc, bm25_weight, vector_weight>>

VARIABLES
    \* ---- SpecCite: one call of CitationExtractor.extract_citations
    cite_query,         \* argument query_text, a sequence of characters
    cite_results,       \* argument hybrid_results
    max_citations,      \* argument
    min_relevance,      \* argument, in units of 1/Scale
    cite_pc,            \* "call" | "returned" | "grouped"
    citations,          \* return value of extract_citations
    group_by,           \* argument of group_citations
    citation_groups     \* return value of group_citations

citeVars ==
    <<cite_query, cite_results, max_citations, min_relevance, cite_pc, citations, group_by,
      citation_groups>>

VARIABLES
    \* ---- SpecQuiz: concurrent calls of QuizOrchestrator.submit_quiz_answers
    \*      for one quiz attempt
    quiz_shared,        \* TRUE: the callers use the orchestrator that generated
                        \* the quiz (the session is in active_sessions);
                        \* FALSE: each caller has an orchestrator of its own
    quiz_completed_at,  \* quiz_attempts.completed_at is not null
    quiz_answer_batches, \* number of times the results were stored
    session_completed,  \* is_completed of each QuizSession object
    sub_pc,             \* per caller: "idle" | "loading" | "evaluating" |
                        \* "storing" | "returned" | "raised"
    sub_session,        \* per caller: the QuizSession object it holds
    sub_remaining,      \* per caller: answers still to evaluate
    sub_result          \* per caller: what the call ended with

quizVars ==
    <<quiz_shared, quiz_completed_at, quiz_answer_batches, session_completed, sub_pc,
      sub_session, sub_remaining, sub_result>>

vars == <<rankVars, queryVars, cacheVars, weightVars, citeVars, quizVars>>

\* Each specification drives one group of variables; the other groups stay
\* at these values.
RankParked ==
    /\ bm25_results = <<>>
    /\ vector_results = <<>>
    /\ limit = 0
    /\ diversity_factor = 0
    /\ rank_pc = "off"
    /\ final_results = <<>>
    /\ set_order = <<>>

QueryParked ==
    /\ db_pool = "none"
    /\ never_responds = "none"
    /\ question = <<>>
    /\ q_pc = "off"
    /\ task_pc = <<>>
    /\ task_result = <<>>
    /\ embed_attempt = 0
    /\ service_cache = {}
    /\ rank_args = <<>>
    /\ query_results = <<>>
    /\ queries_done = 0
    /\ via_entry = FALSE
    /\ served = {}
    /\ streaming = FALSE
    /\ query_outcome = "none"

CacheParked ==
    /\ embedding_cache = <<>>
    /\ call_pc = <<>>
    /\ call_key = <<>>
    /\ next_letter = 0
    /\ last_op = <<>>

WeightParked ==
    /\ bm25_weight_arg = 0
    /\ vector_weight_arg = 0
    /\ ctor_pc = "off"
    /\ bm25_weight = <<>>
    /\ vector_weight = <<>>

CiteParked ==
    /\ cite_query = <<>>
    /\ cite_results = <<>>
    /\ max_citations = 0
    /\ min_relevance = 0
    /\ cite_pc = "off"
    /\ citations = <<>>
    /\ group_by = None
    /\ citation_groups = <<>>

QuizParked ==
    /\ quiz_shared = FALSE
    /\ quiz_completed_at = FALSE
    /\ quiz_answer_batches = 0
    /\ session_completed = <<>>
    /\ sub_pc = <<>>
    /\ sub_session = <<>>
    /\ sub_remaining = <<>>
    /\ sub_result = <<>>

\* ------------------------------------------------------------ small helpers
Range(s) == {s[i] : i \in 1..Len(s)}

Min2(a, b) == IF a <= b THEN a ELSE b

Max2(a, b) == IF a >= b THEN a ELSE b

SetMax(S) == CHOOSE x \in S : \A y \in S : y <= x

SetMin(S) == CHOOSE x \in S : \A y \in S : x <= y

\* all sequences over S of length 0..n
SeqsUpTo(S, n) == UNION {[1..k -> S] : k \in 0..n}

\* all orderings of a finite set, as sequences without repetition
Orderings(S) == {s \in [1..Cardinality(S) -> S] : \A i, j \in 1..Cardinality(S) : s[i] = s[j] => i = j}

\* the sequence [i \in 1..n |-> e(i)] as an explicit tuple
Tuple(f) == f \o <<>>

\* Python's seq[:n] (a negative n counts from the end)
SliceTo(s, n) ==
    IF n >= 0 THEN SubSeq(s, 1, Min2(n, Len(s)))
    ELSE SubSeq(s, 1, Max2(Len(s) + n, 0))

\* ------------------------------------------------------------- chunk rows
ChunkIds == {"A", "B", "C"}

\* section_ref and page_number of a chunk: both retrievers select them from
\* the same row of public.chunks
SectionOf(id) == IF id = "C" THEN None ELSE "s1"

PageOf(id) == IF id = "A" THEN NoInt ELSE 1

\* raw ts_rank_cd scores (non-negative, engine-specific scale)
Bm25Scores == {2, 6}

\* raw cosine similarities in hundredths; the second exceeds 1.0 by floating
\* error
VectorScores == {65, 110}

\* a raw similarity given in hundredths, in fixed point
Hundredths(x) == (x * Scale) \div 100

BM25Result(id, s) ==
    [chunk_id |-> id, section_ref |-> SectionOf(id), page_number |-> PageOf(id), score |-> s]

VectorResult(id, s) ==
    [chunk_id |-> id, section_ref |-> SectionOf(id), page_number |-> PageOf(id),
     similarity_score |-> s]

\* chunks the lexical index matches, and chunks the vector index matches
Bm25Ids == {"A", "B"}

VectorIds == {"B", "C"}

Bm25Rows == {BM25Result(id, s) : id \in Bm25Ids, s \in Bm25Scores}

VectorRows == {VectorResult(id, s) : id \in VectorIds, s \in VectorScores}

\* ------------------------------------------------------------ HybridRanker
\* default weights of HybridRanker.__init__, in tenths
Bm25Weight == 4

VectorWeight == 6

\* RRF constant k
RRF_K == 60

\* _normalize_bm25_scores: sequence of <<result, normalized score>>
NormalizeBm25Scores(results) ==
    IF results = <<>> THEN <<>>
    ELSE LET scores == {results[i].score : i \in 1..Len(results)}
             max_score == SetMax(scores)
             min_score == SetMin(scores)
         IN  IF max_score = min_score
             THEN Tuple([i \in 1..Len(results) |-> <<results[i], Scale>>])
             ELSE Tuple([i \in 1..Len(results) |->
                      <<results[i],
                        ((results[i].score - min_score) * Scale) \div (max_score - min_score)>>])

\* a dense normalisation that passes the similarity on as it is
NormalizeVectorScoresUnclamped(results) ==
    Tuple([i \in 1..Len(results) |-> <<results[i], Hundredths(results[i].similarity_score)>>])

\* _normalize_vector_scores: clamps to [0,1] unless all scores are equal
NormalizeVectorScores(results) ==
    IF results = <<>> THEN <<>>
    ELSE LET scores == {results[i].similarity_score : i \in 1..Len(results)}
             max_score == SetMax(scores)
             min_score == SetMin(scores)
         IN  IF max_score = min_score
             THEN Tuple([i \in 1..Len(results) |-> <<results[i], Scale>>])
             ELSE Tuple([i \in 1..Len(results) |->
                      <<results[i],
                        Max2(0, Min2(Scale, Hundredths(results[i].similarity_score)))>>])

\* {r.chunk_id: (r, score, rank) for rank, (r, score) in enumerate(normalized)}:
\* a later entry of the same chunk_id overwrites an earlier one; rank is 0-based
LookupMap(normalized) ==
    LET ids == {normalized[i][1].chunk_id : i \in 1..Len(normalized)}
        last(id) == SetMax({i \in 1..Len(normalized) : normalized[i][1].chunk_id = id})
    IN  [id \in ids |-> [result |-> normalized[last(id)][1],
                         norm |-> normalized[last(id)][2],
                         rank |-> last(id) - 1]]

\* a reciprocal rank fusion that takes the ranks as 1-based already
CalculateRrfScoreOneBased(bm25_rank, vector_rank) ==
    (IF bm25_rank # NoInt THEN Scale \div (RRF_K + bm25_rank) ELSE 0)
    + (IF vector_rank # NoInt THEN Scale \div (RRF_K + vector_rank) ELSE 0)

\* _calculate_rrf_score
CalculateRrfScore(bm25_rank, vector_rank) ==
    (IF bm25_rank # NoInt THEN Scale \div (RRF_K + bm25_rank + 1) ELSE 0)
    + (IF vector_rank # NoInt THEN Scale \div (RRF_K + vector_rank + 1) ELSE 0)

\* body of the loop "for chunk_id in all_chunk_ids": one HybridResult
MakeHybridResult(chunk_id, bm25_map, vector_map) ==
    LET has_bm25 == chunk_id \in DOMAIN bm25_map
        has_vector == chunk_id \in DOMAIN vector_map
        bm25_norm_score == IF has_bm25 THEN bm25_map[chunk_id].norm ELSE 0
        vector_norm_score == IF has_vector THEN vector_map[chunk_id].norm ELSE 0
        bm25_rank == IF has_bm25 THEN bm25_map[chunk_id].rank ELSE NoInt
        vector_rank == IF has_vector THEN vector_map[chunk_id].rank ELSE NoInt
        hybrid_score == (Bm25Weight * bm25_norm_score + VectorWeight * vector_norm_score) \div 10
        rrf_score == CalculateRrfScore(bm25_rank, vector_rank)
        source_result == IF has_bm25 THEN bm25_map[chunk_id].result
                         ELSE vector_map[chunk_id].result
    IN  [chunk_id |-> chunk_id,
         section_ref |-> source_result.section_ref,
         page_number |-> source_result.page_number,
         hybrid_score |-> (8 * hybrid_score + 2 * rrf_score) \div 10,
         bm25_score |-> IF has_bm25 THEN bm25_map[chunk_id].result.score ELSE NoInt,
         vector_score |-> IF has_vector THEN vector_map[chunk_id].result.similarity_score
                          ELSE NoInt,
         rank_bm25 |-> IF has_bm25 THEN bm25_rank + 1 ELSE NoInt,
         rank_vector |-> IF has_vector THEN vector_rank + 1 ELSE NoInt,
         bm25_normalized |-> bm25_norm_score,
         vector_normalized |-> vector_norm_score,
         rrf_score |-> rrf_score,
         diversity_penalty |-> NoInt,
         adjusted_score |-> NoInt]

\* list.sort(key=..., reverse=True) on <<key, item>> pairs: descending and
\* stable (items with equal keys keep their order)
RECURSIVE InsertDesc(_, _)
InsertDesc(sorted, p) ==
    IF sorted = <<>> THEN <<p>>
    ELSE IF Head(sorted)[1] >= p[1] THEN <<Head(sorted)>> \o InsertDesc(Tail(sorted), p)
    ELSE <<p>> \o sorted

RECURSIVE SortDescFrom(_, _)
SortDescFrom(sorted, rest) ==
    IF rest = <<>> THEN sorted
    ELSE SortDescFrom(InsertDesc(sorted, Head(rest)), Tail(rest))

SortDesc(pairs) ==
    LET sorted == SortDescFrom(<<>>, pairs)
    IN  Tuple([i \in 1..Len(pairs) |-> sorted[i][2]])

\* a counter that is incremented before the penalty is computed: results[i]
\* itself is counted
SeenUpTo(results, i, field, value) ==
    Cardinality({j \in 1..i : results[j][field] = value})

\* number of results[j], j < i, whose field has the given value
SeenBefore(results, i, field, value) ==
    Cardinality({j \in 1..(i - 1) : results[j][field] = value})

\* a diversity filter that discards every result whose section was seen before
ApplyDiversityFilterDropping(results, f) ==
    LET kept == {i \in 1..Len(results) :
                    SeenBefore(results, i, "section_ref", results[i].section_ref) = 0}
    IN  Tuple([k \in 1..Cardinality(kept) |->
                 results[CHOOSE i \in kept : Cardinality({j \in kept : j <= i}) = k]])

\* _apply_diversity_filter; diversity_factor is in tenths, the penalty in
\* thousandths: df*count*0.1 = 10*f*count/1000, df*count*0.05 = 5*f*count/1000
ApplyDiversityFilter(results, f) ==
    IF f <= 0 \/ Len(results) <= 1 THEN results
    ELSE LET penalty(i) ==
                 (IF results[i].section_ref \notin {None, ""}
                  THEN 10 * f * SeenBefore(results, i, "section_ref", results[i].section_ref)
                  ELSE 0)
                 + (IF results[i].page_number # NoInt
                    THEN 5 * f * SeenBefore(results, i, "page_number", results[i].page_number)
                    ELSE 0)
             filtered_results ==
                 Tuple([i \in 1..Len(results) |->
                     [results[i] EXCEPT
                        !.diversity_penalty = penalty(i),
                        !.adjusted_score = (results[i].hybrid_score * (1000 - penalty(i))) \div 1000]])
         IN  SortDesc([i \in 1..Len(results) |->
                          <<filtered_results[i].adjusted_score, filtered_results[i]>>])

\* a ranker that fuses only the chunk ids both lists hold
AllChunkIdsIntersection(bm25, vector) ==
    {bm25[i].chunk_id : i \in 1..Len(bm25)} \cap {vector[i].chunk_id : i \in 1..Len(vector)}

\* the union of chunk ids rank() iterates over
AllChunkIds(bm25, vector) ==
    {bm25[i].chunk_id : i \in 1..Len(bm25)} \cup {vector[i].chunk_id : i \in 1..Len(vector)}

\* rank() up to and including the sort by hybrid score; `order` is the
\* iteration order of the set all_chunk_ids
RankSorted(bm25, vector, order) ==
    LET bm25_map == LookupMap(NormalizeBm25Scores(bm25))
        vector_map == LookupMap(NormalizeVectorScores(vector))
        hybrid_results ==
            Tuple([i \in 1..Len(order) |-> MakeHybridResult(order[i], bm25_map, vector_map)])
    IN  SortDesc([i \in 1..Len(order) |-> <<hybrid_results[i].hybrid_score, hybrid_results[i]>>])

\* "if diversity_factor > 0: hybrid_results = self._apply_diversity_filter(...)"
Diversify(sorted, f) == IF f > 0 THEN ApplyDiversityFilter(sorted, f) ELSE sorted

\* "final_results = hybrid_results[:limit]"
LimitResults(hybrid_results, lim) == SliceTo(hybrid_results, lim)

\* ---------------------------------------------------------------- SpecRank
Limits == {0 - 1, 0, 1, MaxLimit}

\* diversity_factor values in tenths: off, the default 0.1, and 1.0
DiversityFactors == {0, 1, 10}

RankInit ==
    /\ bm25_results \in SeqsUpTo(Bm25Rows, MaxLen)
    /\ vector_results \in SeqsUpTo(VectorRows, MaxLen)
    /\ limit = NoInt
    /\ diversity_factor = NoInt
    /\ rank_pc = "call"
    /\ final_results = <<>>
    /\ set_order = <<>>

\* one call ranker.rank(bm25_results, vector_results, lim, f); set_order is
\* the order in which the loop saw the elements of the set all_chunk_ids
RankCall ==
    /\ rank_pc = "call"
    /\ \E order \in Orderings(AllChunkIds(bm25_results, vector_results)) :
          LET sorted == RankSorted(bm25_results, vector_results, order)
          IN  /\ set_order' = order
              /\ \E f \in DiversityFactors :
                    LET filtered == Diversify(sorted, f)
                    IN  /\ diversity_factor' = f
                        /\ \E lim \in Limits :
                              /\ limit' = lim
                              /\ final_results' =
                                    IF bm25_results = <<>> /\ vector_results = <<>>
                                    THEN <<>>
                                    ELSE LimitResults(filtered, lim)
    /\ rank_pc' = "returned"
    /\ UNCHANGED <<bm25_results, vector_results, queryVars, cacheVars, weightVars, citeVars, quizVars>>

RankNext == RankCall

RankSpecInit == RankInit /\ QueryParked /\ CacheParked /\ WeightParked /\ CiteParked /\ QuizParked

SpecRank == RankSpecInit /\ [][RankNext]_vars

\* ------------------------------------------------------------ SpecScenario
\* rank() on the two lists of the worked example: sparse [(A,0.8),(B,0.6)]
\* (scores in tenths), dense [(B,0.9),(C,0.7)] (in hundredths).  The example
\* leaves sections and pages open, so every assignment is tried.
ScenarioSections == {None, "s1"}

ScenarioPages == {NoInt, 1}

ScenarioInit ==
    /\ \E sec \in [ChunkIds -> ScenarioSections], page \in [ChunkIds -> ScenarioPages] :
          /\ bm25_results =
                <<[chunk_id |-> "A", section_ref |-> sec["A"], page_number |-> page["A"],
                   score |-> 8],
                  [chunk_id |-> "B", section_ref |-> sec["B"], page_number |-> page["B"],
                   score |-> 6]>>
          /\ vector_results =
                <<[chunk_id |-> "B", section_ref |-> sec["B"], page_number |-> page["B"],
                   similarity_score |-> 90],
                  [chunk_id |-> "C", section_ref |-> sec["C"], page_number |-> page["C"],
                   similarity_score |-> 70]>>
    /\ limit = NoInt
    /\ diversity_factor = NoInt
    /\ rank_pc = "call"
    /\ final_results = <<>>
    /\ set_order = <<>>

ScenarioSpecInit == ScenarioInit /\ QueryParked /\ CacheParked /\ WeightParked /\ CiteParked /\ QuizParked

SpecScenario == ScenarioSpecInit /\ [][RankNext]_vars

\* ---------------------------------------------------------------- SpecTies
\* rank() on lists in which a chunk of the sparse list only and a chunk of
\* the dense list only can end with the same score: A is last of the sparse
\* list (normalized 0.0), C is last of the dense list with a similarity of
\* 0.0 or 0.7 (scores in tenths and hundredths as above).
TieSimilarities == {0, 70}

TieInit ==
    /\ \E sec \in [ChunkIds -> ScenarioSections], page \in [ChunkIds -> ScenarioPages] :
          /\ bm25_results =
                <<[chunk_id |-> "B", section_ref |-> sec["B"], page_number |-> page["B"],
                   score |-> 8],
                  [chunk_id |-> "A", section_ref |-> sec["A"], page_number |-> page["A"],
                   score |-> 6]>>
          /\ \E s \in TieSimilarities :
                vector_results =
                    <<[chunk_id |-> "B", section_ref |-> sec["B"], page_number |-> page["B"],
                       similarity_score |-> 90],
                      [chunk_id |-> "C", section_ref |-> sec["C"], page_number |-> page["C"],
                       similarity_score |-> s]>>
    /\ limit = NoInt
    /\ diversity_factor = NoInt
    /\ rank_pc = "call"
    /\ final_results = <<>>
    /\ set_order = <<>>

TieSpecInit == TieInit /\ QueryParked /\ CacheParked /\ WeightParked /\ CiteParked /\ QuizParked

SpecTies == TieSpecInit /\ [][RankNext]_vars

\* ------------------------------------------------------------- query texts
\* A text is a sequence of characters; a character is a number: 0 is the
\* space, 2n is the lower-case and 2n+1 the upper-case form of letter n >= 1.
Space == 0

LowerCase(n) == 2 * n

UpperCase(n) == 2 * n + 1

\* str.lower() on one character
LowerChar(c) == IF c > 1 /\ c % 2 = 1 THEN c - 1 ELSE c

\* str.lower()
Lower(text) == [i \in 1..Len(text) |-> LowerChar(text[i])]

RECURSIVE LStrip(_)
LStrip(text) ==
    IF text # <<>> /\ Head(text) = Space THEN LStrip(Tail(text)) ELSE text

RECURSIVE RStrip(_)
RStrip(text) ==
    IF text # <<>> /\ text[Len(text)] = Space THEN RStrip(SubSeq(text, 1, Len(text) - 1))
    ELSE text

\* str.strip()
Strip(text) == RStrip(LStrip(text))

\* cache_key = query_text.strip().lower()
CacheKey(query_text) == Tuple(Lower(Strip(query_text)))

\* --------------------------------------------------------------- SpecQuery
Tasks == {"bm25", "vector"}

\* queries served by one RAGService in the model
MaxQueries == 2

\* EmbeddingsService.max_retries
max_retries == 3

\* question texts: empty, and two spellings of one question
Questions == {<<>>, <<UpperCase(1)>>, <<LowerCase(1), Space>>}

\* what the lexical index and the vector index can answer
Bm25Answers == {<<>>, <<BM25Result("A", 6), BM25Result("B", 2)>>}

VectorAnswers == {<<>>, <<VectorResult("B", 110), VectorResult("C", 65)>>}

Answers(t) == IF t = "bm25" THEN Bm25Answers ELSE VectorAnswers

\* collaborators a coroutine can be suspended on
Collaborators == {"create_pool", "acquire", "command", "embedding"}

\* create_db_pool passes command_timeout=60: a statement on a connection that
\* gets no answer ends in a TimeoutError.  No other await of the retrieval
\* path is given a timeout.
HasTimeout(collaborator) == collaborator = "command"

\* the awaited collaborator lets the coroutine resume (with an answer, an
\* error, or the timeout error)
Resumes(collaborator) == never_responds # collaborator \/ HasTimeout(collaborator)

\* outcomes of an awaited statement (execute, fetch): a statement that is
\* never answered raises the timeout error
CommandOutcomes == IF never_responds = "command" THEN {"error"} ELSE {"ok", "error"}

Completed(t) == task_pc[t] \in {"returned", "raised"}

QueryInit ==
    /\ db_pool \in {"none", "pool"}
    /\ never_responds \in {"none"} \cup Collaborators
    /\ question = <<>>
    /\ q_pc = "idle"
    /\ task_pc = [t \in Tasks |-> "unforked"]
    /\ task_result = [t \in Tasks |-> <<>>]
    /\ embed_attempt = 0
    /\ service_cache = {}
    /\ rank_args = [t \in Tasks |-> <<>>]
    /\ query_results = <<>>
    /\ queries_done = 0
    /\ via_entry = FALSE
    /\ served = {}
    /\ streaming = FALSE
    /\ query_outcome = "none"

\* a sequential variant: the sparse retrieval is awaited before the dense one is started
GatherForkSequential(pcs) == [t \in Tasks |-> IF t = "bm25" THEN "start" ELSE pcs[t]]

\* asyncio.gather(bm25_task, vector_task, ...): both coroutines are wrapped
\* in tasks and scheduled before _retrieve_chunks suspends
GatherFork(pcs) == [t \in Tasks |-> "start"]

\* rag_query and rag_query_stream build "rag_service = RAGService()" for each
\* request; RAGService.__init__ builds a VectorRetriever, whose __init__ sets
\* "_embedding_cache = {}"
NewServiceCache(cache) == {}

\* a query starts, through rag_query (a new RAGService) or on the RAGService
\* the caller already holds, and runs _retrieve_chunks up to
\* "await asyncio.gather(...)"
RetrieveChunksStart ==
    /\ q_pc = "idle"
    /\ queries_done < MaxQueries
    /\ \E q \in Questions : question' = q
    /\ \E entry \in BOOLEAN :
          /\ via_entry' = entry
          /\ service_cache' = IF entry THEN NewServiceCache(service_cache) ELSE service_cache
    /\ q_pc' = "gather"
    /\ task_pc' = GatherFork(task_pc)
    /\ task_result' = [t \in Tasks |-> <<>>]
    /\ embed_attempt' = 0
    /\ rank_args' = [t \in Tasks |-> <<>>]
    /\ query_results' = <<>>
    /\ \E is_streaming \in BOOLEAN : streaming' = is_streaming
    /\ query_outcome' = "none"
    /\ UNCHANGED <<db_pool, never_responds, queries_done, served,
                   rankVars, cacheVars, weightVars, citeVars, quizVars>>

\* "pool = await get_db_pool()": with a pool the coroutine goes on to
\* pool.acquire(), without one it awaits asyncpg.create_pool
AfterGetDbPool == IF db_pool = "none" THEN "create_pool" ELSE "acquire"

\* BM25Retriever.retrieve from its start to its first await
Bm25Start ==
    /\ task_pc["bm25"] = "start"
    /\ task_pc' = [task_pc EXCEPT !["bm25"] = AfterGetDbPool]
    /\ UNCHANGED <<db_pool, never_responds, question, q_pc, task_result, embed_attempt,
                   service_cache, rank_args, query_results, queries_done, via_entry, served,
                   streaming, query_outcome,
                   rankVars, cacheVars, weightVars, citeVars, quizVars>>

\* VectorRetriever.retrieve from its start, through _get_query_embedding's
\* empty-text test and cache lookup, to its first await
VectorStart ==
    /\ task_pc["vector"] = "start"
    /\ IF question = <<>>
       THEN \* _get_query_embedding returns None: "return []"
            task_pc' = [task_pc EXCEPT !["vector"] = "returned"]
       ELSE IF CacheKey(question) \in service_cache
       THEN task_pc' = [task_pc EXCEPT !["vector"] = AfterGetDbPool]
       ELSE task_pc' = [task_pc EXCEPT !["vector"] = "embedding"]
    /\ UNCHANGED <<db_pool, never_responds, question, q_pc, task_result, embed_attempt,
                   service_cache, rank_args, query_results, queries_done, via_entry, served,
                   streaming, query_outcome,
                   rankVars, cacheVars, weightVars, citeVars, quizVars>>

\* one attempt of _generate_batch_embeddings answers
EmbeddingOutcomes == {"ok", "empty_vector", "rate_limit", "error"}

\* "await self.client.embeddings.create(...)" resumes, in attempt
\* embed_attempt of the retry loop
VectorEmbeddingResume ==
    /\ task_pc["vector"] = "embedding"
    /\ Resumes("embedding")
    /\ \E outcome \in EmbeddingOutcomes :
          CASE outcome = "ok" ->
                 \* cached, then "pool = await get_db_pool()"
                 /\ service_cache' = service_cache \cup {CacheKey(question)}
                 /\ task_pc' = [task_pc EXCEPT !["vector"] = AfterGetDbPool]
                 /\ UNCHANGED embed_attempt
            [] outcome = "empty_vector" ->
                 \* "if not embeddings or not embeddings[0]: return None"
                 /\ task_pc' = [task_pc EXCEPT !["vector"] = "returned"]
                 /\ UNCHANGED <<service_cache, embed_attempt>>
            [] outcome = "error" /\ embed_attempt = max_retries - 1 ->
                 \* re-raised, caught by _get_query_embedding: None, "return []"
                 /\ task_pc' = [task_pc EXCEPT !["vector"] = "returned"]
                 /\ UNCHANGED <<service_cache, embed_attempt>>
            [] OTHER ->
                 \* rate limit, or an error before the last attempt: sleep
                 /\ task_pc' = [task_pc EXCEPT !["vector"] = "embedding_sleep"]
                 /\ UNCHANGED <<service_cache, embed_attempt>>
    /\ UNCHANGED <<db_pool, never_responds, question, q_pc, task_result,
                   rank_args, query_results, queries_done, via_entry, served,
                   streaming, query_outcome,
                   rankVars, cacheVars, weightVars, citeVars, quizVars>>

\* "await asyncio.sleep(...)" of the retry loop resumes: next attempt, or the
\* RuntimeError after the loop (caught by _get_query_embedding: "return []")
VectorEmbeddingRetry ==
    /\ task_pc["vector"] = "embedding_sleep"
    /\ IF embed_attempt + 1 < max_retries
       THEN /\ embed_attempt' = embed_attempt + 1
            /\ task_pc' = [task_pc EXCEPT !["vector"] = "embedding"]
       ELSE /\ task_pc' = [task_pc EXCEPT !["vector"] = "returned"]
            /\ UNCHANGED embed_attempt
    /\ UNCHANGED <<db_pool, never_responds, question, q_pc, task_result,
                   service_cache, rank_args, query_results, queries_done, via_entry, served,
                   streaming, query_outcome,
                   rankVars, cacheVars, weightVars, citeVars, quizVars>>

\* "await asyncpg.create_pool(...)" resumes inside get_db_pool, which the
\* retrievers call before their try block: an error leaves retrieve()
CreatePoolFailure(t) == "raised"

CreatePoolResume(t) ==
    /\ task_pc[t] = "create_pool"
    /\ Resumes("create_pool")
    /\ \/ /\ db_pool' = "pool"
          /\ task_pc' = [task_pc EXCEPT ![t] = "acquire"]
       \/ /\ task_pc' = [task_pc EXCEPT ![t] = CreatePoolFailure(t)]
          /\ UNCHANGED db_pool
    /\ UNCHANGED <<never_responds, question, q_pc, task_result, embed_attempt,
                   service_cache, rank_args, query_results, queries_done, via_entry, served,
                   streaming, query_outcome,
                   rankVars, cacheVars, weightVars, citeVars, quizVars>>

\* "async with pool.acquire() as conn" resumes; an error is caught by the
\* try block of retrieve(): "return []"
AcquireResume(t) ==
    /\ task_pc[t] = "acquire"
    /\ Resumes("acquire")
    /\ \E outcome \in {"ok", "error"} :
          task_pc' = [task_pc EXCEPT ![t] = IF outcome = "ok" THEN "set_config" ELSE "returned"]
    /\ UNCHANGED <<db_pool, never_responds, question, q_pc, task_result, embed_attempt,
                   service_cache, rank_args, query_results, queries_done, via_entry, served,
                   streaming, query_outcome,
                   rankVars, cacheVars, weightVars, citeVars, quizVars>>

\* "await conn.execute(\"SELECT set_config(...)\")" resumes
SetConfigResume(t) ==
    /\ task_pc[t] = "set_config"
    /\ Resumes("command")
    /\ \E outcome \in CommandOutcomes :
          task_pc' = [task_pc EXCEPT ![t] = IF outcome = "ok" THEN "fetch" ELSE "returned"]
    /\ UNCHANGED <<db_pool, never_responds, question, q_pc, task_result, embed_attempt,
                   service_cache, rank_args, query_results, queries_done, via_entry, served,
                   streaming, query_outcome,
                   rankVars, cacheVars, weightVars, citeVars, quizVars>>

\* "rows = await conn.fetch(...)" resumes; the rows become the result list
FetchResume(t) ==
    /\ task_pc[t] = "fetch"
    /\ Resumes("command")
    /\ \E outcome \in CommandOutcomes :
          IF outcome = "ok"
          THEN \E rows \in Answers(t) : task_result' = [task_result EXCEPT ![t] = rows]
          ELSE UNCHANGED task_result
    /\ task_pc' = [task_pc EXCEPT ![t] = "returned"]
    /\ UNCHANGED <<db_pool, never_responds, question, q_pc, embed_attempt,
                   service_cache, rank_args, query_results, queries_done, via_entry, served,
                   streaming, query_outcome,
                   rankVars, cacheVars, weightVars, citeVars, quizVars>>

\* any step of retriever coroutine t
TaskStep(t) ==
    \/ (t = "bm25" /\ Bm25Start)
    \/ (t = "vector" /\ (VectorStart \/ VectorEmbeddingResume \/ VectorEmbeddingRetry))
    \/ CreatePoolResume(t)
    \/ AcquireResume(t)
    \/ SetConfigResume(t)
    \/ FetchResume(t)

\* a first-completed variant: resume as soon as one of the two has completed
GatherReadyFirstCompleted == \E t \in Tasks : Completed(t)

\* gather(..., return_exceptions=True) resumes _retrieve_chunks
GatherReady == \A t \in Tasks : Completed(t)

\* what gather hands back for t, after "if isinstance(x, Exception): x = []"
GatheredList(t) == IF task_pc[t] = "raised" THEN <<>> ELSE task_result[t]

\* RAGConfig defaults: limit = max_chunks * 2, min_relevance = 0.1
max_chunks == 10

MinRelevance == Scale \div 10

\* default diversity_factor of rank(), in tenths
DefaultDiversity == 1

\* _retrieve_chunks from the return of gather to its own return
RetrieveChunksJoin ==
    /\ q_pc = "gather"
    /\ GatherReady
    /\ rank_args' = [t \in Tasks |-> GatheredList(t)]
    /\ \E order \in Orderings(AllChunkIds(GatheredList("bm25"), GatheredList("vector"))) :
          LET hybrid_results ==
                  IF GatheredList("bm25") = <<>> /\ GatheredList("vector") = <<>> THEN <<>>
                  ELSE LimitResults(
                          Diversify(RankSorted(GatheredList("bm25"), GatheredList("vector"), order),
                                    DefaultDiversity),
                          max_chunks * 2)
          IN  query_results' = SelectSeq(hybrid_results, LAMBDA r : r.hybrid_score >= MinRelevance)
    /\ q_pc' = "ranked"
    /\ UNCHANGED <<db_pool, never_responds, question, task_pc, task_result, embed_attempt,
                   service_cache, queries_done, via_entry, served, streaming, query_outcome,
                   rankVars, cacheVars, weightVars, citeVars, quizVars>>

\* what query and query_streaming hand to their caller when _retrieve_chunks
\* returned no chunk: query returns _create_no_results_response(...),
\* query_streaming yields {"type": "error", ...} and returns
EmptyEvidenceOutcome(is_streaming) == IF is_streaming THEN "error" ELSE "no_results"

\* what they hand over otherwise: the answer, or an error when a later step
\* (citations, prompt, language model) raised
EvidenceOutcomes == {"answer", "error"}

\* the caller takes the result; the service is free for its next query
QueryDone ==
    /\ q_pc = "ranked"
    /\ IF query_results = <<>>
       THEN query_outcome' = EmptyEvidenceOutcome(streaming)
       ELSE \E o \in EvidenceOutcomes : query_outcome' = o
    /\ q_pc' = "idle"
    /\ queries_done' = queries_done + 1
    /\ task_pc' = [t \in Tasks |-> "unforked"]
    /\ served' = IF via_entry /\ question # <<>> /\ CacheKey(question) \in service_cache
                 THEN served \cup {CacheKey(question)} ELSE served
    /\ UNCHANGED <<db_pool, never_responds, question, task_result, embed_attempt,
                   service_cache, rank_args, query_results, via_entry, streaming,
                   rankVars, cacheVars, weightVars, citeVars, quizVars>>

QueryNext ==
    \/ RetrieveChunksStart
    \/ Bm25Start
    \/ VectorStart
    \/ VectorEmbeddingResume
    \/ VectorEmbeddingRetry
    \/ \E t \in Tasks : CreatePoolResume(t)
    \/ \E t \in Tasks : AcquireResume(t)
    \/ \E t \in Tasks : SetConfigResume(t)
    \/ \E t \in Tasks : FetchResume(t)
    \/ RetrieveChunksJoin
    \/ QueryDone

QuerySpecInit == QueryInit /\ RankParked /\ CacheParked /\ WeightParked /\ CiteParked /\ QuizParked

SpecQuery == QuerySpecInit /\ [][QueryNext]_vars

\* --------------------------------------------------------------- SpecCache
\* concurrent callers of _get_query_embedding on the one retriever
MaxCallers == 2

\* texts never asked before that the callers can bring
MaxFresh == 3

\* "if len(self._embedding_cache) > 100"
CACHE_LIMIT == 100

Callers == 1..MaxCallers

\* the text of a question about letter n, in two spellings of one cache key
Spellings(n) == {<<UpperCase(n)>>, <<Space, LowerCase(n)>>}

LetterOf(key) == key[1] \div 2

\* the cache after n successful lookups of the letters 1..n, one at a time
Prefilled(n) == [i \in 1..n |-> CacheKey(<<UpperCase(i)>>)]

\* the cache sizes the runs start from: new, one below the limit, at the limit
PrefillSizes == {0, CACHE_LIMIT - 1, CACHE_LIMIT}

\* letters a caller can ask about: the next new one, those of the oldest and
\* the newest cached key, those other callers are waiting for, and the one
\* whose lookup has just failed
AskableLetters ==
    (IF next_letter <= CACHE_LIMIT + MaxFresh THEN {next_letter} ELSE {})
    \cup (IF embedding_cache # <<>>
          THEN {LetterOf(Head(embedding_cache)),
                LetterOf(embedding_cache[Len(embedding_cache)])}
          ELSE {})
    \cup {LetterOf(call_key[c]) : c \in {d \in Callers : call_pc[d] = "awaiting"}}
    \cup (IF last_op.kind = "failed" THEN {LetterOf(last_op.key)} ELSE {})

\* "self._embedding_cache = {}", then the lookups that filled the cache
\* before the callers arrive
CacheInit ==
    /\ \E n \in PrefillSizes : embedding_cache = Prefilled(n)
    /\ call_pc = [c \in Callers |-> "idle"]
    /\ call_key = [c \in Callers |-> <<>>]
    /\ next_letter = CACHE_LIMIT + 1
    /\ last_op = [kind |-> "none", key |-> <<>>, before |-> embedding_cache]

\* "if len(self._embedding_cache) > 100: oldest_key = next(iter(cache));
\* del cache[oldest_key]": a dict iterates in insertion order
EvictOldest(cache) == IF Len(cache) > CACHE_LIMIT THEN Tail(cache) ELSE cache

\* "self._embedding_cache[cache_key] = embedding": a key the dict holds keeps
\* its place, a new key goes last
DictSet(cache, key) == IF key \in Range(cache) THEN cache ELSE Append(cache, key)

\* _get_query_embedding from its start to its return or its await:
\* empty-text test, cache lookup, call of generate_embeddings
GetQueryEmbeddingCall(c) ==
    /\ call_pc[c] = "idle"
    /\ \/ \* "if not query_text: return None"
          /\ last_op' = [kind |-> "no_text", key |-> <<>>, before |-> embedding_cache]
          /\ UNCHANGED <<call_pc, call_key, next_letter>>
       \/ \E n \in AskableLetters : \E query_text \in Spellings(n) :
             LET cache_key == CacheKey(query_text)
             IN  /\ next_letter' = IF n = next_letter THEN next_letter + 1 ELSE next_letter
                 /\ IF cache_key \in Range(embedding_cache)
                    THEN /\ last_op' = [kind |-> "hit", key |-> cache_key,
                                        before |-> embedding_cache]
                         /\ UNCHANGED <<call_pc, call_key>>
                    ELSE /\ last_op' = [kind |-> "miss", key |-> cache_key,
                                        before |-> embedding_cache]
                         /\ call_pc' = [call_pc EXCEPT ![c] = "awaiting"]
                         /\ call_key' = [call_key EXCEPT ![c] = cache_key]
    /\ UNCHANGED <<embedding_cache, rankVars, queryVars, weightVars, citeVars, quizVars>>

\* a resumption that caches the failure under the key as well
GetQueryEmbeddingResumeCachingFailure(c) ==
    /\ call_pc[c] = "awaiting"
    /\ \E kind \in {"insert", "failed"} :
          /\ embedding_cache' = DictSet(EvictOldest(embedding_cache), call_key[c])
          /\ last_op' = [kind |-> kind, key |-> call_key[c], before |-> embedding_cache]
    /\ call_pc' = [call_pc EXCEPT ![c] = "idle"]
    /\ call_key' = [call_key EXCEPT ![c] = <<>>]
    /\ UNCHANGED <<next_letter, rankVars, queryVars, weightVars, citeVars, quizVars>>

\* "embeddings = await generate_embeddings([query_text])" resumes: with an
\* embedding, which is cached and returned, or with an exception or an empty
\* result, which return None
GetQueryEmbeddingResume(c) ==
    /\ call_pc[c] = "awaiting"
    /\ \/ /\ embedding_cache' = DictSet(EvictOldest(embedding_cache), call_key[c])
          /\ last_op' = [kind |-> "insert", key |-> call_key[c], before |-> embedding_cache]
       \/ /\ last_op' = [kind |-> "failed", key |-> call_key[c], before |-> embedding_cache]
          /\ UNCHANGED embedding_cache
    /\ call_pc' = [call_pc EXCEPT ![c] = "idle"]
    /\ call_key' = [call_key EXCEPT ![c] = <<>>]
    /\ UNCHANGED <<next_letter, rankVars, queryVars, weightVars, citeVars, quizVars>>

CacheNext ==
    \/ \E c \in Callers : GetQueryEmbeddingCall(c)
    \/ \E c \in Callers : GetQueryEmbeddingResume(c)

CacheSpecInit == CacheInit /\ RankParked /\ QueryParked /\ WeightParked /\ CiteParked /\ QuizParked

SpecCache == CacheSpecInit /\ [][CacheNext]_vars

\* ------------------------------------------------------------- SpecWeights
\* weights are fixed-point numbers: WeightUnit stands for 1.0
WeightUnit == 10000

\* "if abs(total_weight - 1.0) > 0.001", in units of 1/WeightUnit
WeightTolerance == 10

\* weights a caller can pass: negative, zero, the defaults, sums on either
\* side of the tolerance, and above 1.0
WeightArgs == {0 - 5000, 0 - 3000, 0, 1000, 2000, 3000, 4000, 5000, 6000, 6005, 6020, 15000}

Abs(x) == IF x < 0 THEN 0 - x ELSE x

\* the number num/den
Fraction(num, den) == [num |-> num, den |-> den]

\* a constructor that keeps the weights it is given
EffectiveWeightsAsGiven(b, v) ==
    [raised |-> FALSE, bm25 |-> Fraction(b, WeightUnit), vector |-> Fraction(v, WeightUnit)]

\* HybridRanker.__init__: the weights are stored, and divided by their sum
\* when the sum is off 1.0 by more than the tolerance; dividing by a sum of
\* zero raises ZeroDivisionError
EffectiveWeights(b, v) ==
    LET total_weight == b + v
    IN  IF Abs(total_weight - WeightUnit) > WeightTolerance
        THEN IF total_weight = 0
             THEN [raised |-> TRUE, bm25 |-> Fraction(b, WeightUnit),
                   vector |-> Fraction(v, WeightUnit)]
             ELSE [raised |-> FALSE, bm25 |-> Fraction(b, total_weight),
                   vector |-> Fraction(v, total_weight)]
        ELSE [raised |-> FALSE, bm25 |-> Fraction(b, WeightUnit),
              vector |-> Fraction(v, WeightUnit)]

WeightInit ==
    /\ bm25_weight_arg \in WeightArgs
    /\ vector_weight_arg \in WeightArgs
    /\ ctor_pc = "call"
    /\ bm25_weight = <<>>
    /\ vector_weight = <<>>

\* one construction HybridRanker(bm25_weight_arg, vector_weight_arg)
RankerConstruct ==
    /\ ctor_pc = "call"
    /\ LET made == EffectiveWeights(bm25_weight_arg, vector_weight_arg)
       IN  /\ ctor_pc' = IF made.raised THEN "raised" ELSE "constructed"
           /\ bm25_weight' = made.bm25
           /\ vector_weight' = made.vector
    /\ UNCHANGED <<bm25_weight_arg, vector_weight_arg, rankVars, queryVars, cacheVars, citeVars, quizVars>>

WeightNext == RankerConstruct

WeightSpecInit == WeightInit /\ RankParked /\ QueryParked /\ CacheParked /\ CiteParked /\ QuizParked

SpecWeights == WeightSpecInit /\ [][WeightNext]_vars

\* --------------------------------------------------------- claims, weights
\* two fractions are the same number
SameNumber(x, y) == x.num * y.den = y.num * x.den

\* two fractions add up to 1.0
SumToOne(x, y) == x.num * y.den + y.num * x.den = x.den * y.den

\* the effective weights are the given ones, each divided by their sum
Proportional ==
    LET total == bm25_weight_arg + vector_weight_arg
    IN  /\ SumToOne(bm25_weight, vector_weight)
        /\ SameNumber(bm25_weight, Fraction(bm25_weight_arg, total))
        /\ SameNumber(vector_weight, Fraction(vector_weight_arg, total))

\* the effective weights are the given ones
LeftUnchanged ==
    /\ SameNumber(bm25_weight, Fraction(bm25_weight_arg, WeightUnit))
    /\ SameNumber(vector_weight, Fraction(vector_weight_arg, WeightUnit))

\* C14 (as claimed): constructing a ranker with any weights never fails;
\* weights that do not sum to 1.0 come out divided by their sum, so that they
\* sum to 1.0, and weights that sum to 1.0 are left unchanged.
C14_AnyWeightsNormalized ==
    ctor_pc # "call" =>
        /\ ctor_pc = "constructed"
        /\ bm25_weight_arg + vector_weight_arg # WeightUnit => Proportional
        /\ bm25_weight_arg + vector_weight_arg = WeightUnit => LeftUnchanged

\* C14 (amended): constructing a ranker fails exactly when the weights sum
\* to zero; otherwise weights whose sum is off 1.0 by more than 0.001 come
\* out divided by their sum, so that they sum to 1.0, and weights whose sum
\* is within 0.001 of 1.0 are left unchanged.
C14_NonzeroWeightsNormalized ==
    ctor_pc # "call" =>
        LET total == bm25_weight_arg + vector_weight_arg
        IN  /\ ctor_pc = "raised" <=> total = 0
            /\ (total # 0 /\ Abs(total - WeightUnit) > WeightTolerance) => Proportional
            /\ Abs(total - WeightUnit) <= WeightTolerance => LeftUnchanged

\* C14 witness: the weights (0.3, 0.3) came out as (0.5, 0.5)
C14_Witness ==
    /\ ctor_pc = "constructed"
    /\ bm25_weight_arg = 3000
    /\ vector_weight_arg = 3000
    /\ SameNumber(bm25_weight, Fraction(1, 2))
    /\ SameNumber(vector_weight, Fraction(1, 2))

\* ---------------------------------------------------------------- SpecCite
\* A text is a sequence of one-character strings. Positions in the source
\* are 0-based; "not found" is NoInt, as str.find and str.rfind give -1.
UpperLetters == <<"A", "B", "C", "D", "E", "F", "G", "H", "I", "J", "K", "L", "M", "N", "O", "P", "Q", "R", "S", "T", "U", "V", "W", "X", "Y", "Z">>

LowerLetters == <<"a", "b", "c", "d", "e", "f", "g", "h", "i", "j", "k", "l", "m", "n", "o", "p", "q", "r", "s", "t", "u", "v", "w", "x", "y", "z">>

Digits == {"0", "1", "2", "3", "4", "5", "6", "7", "8", "9"}

\* str.isupper() on one character
IsUpper(ch) == ch \in Range(UpperLetters)

\* str.lower() on one character
ToLower(ch) ==
    IF IsUpper(ch) THEN LowerLetters[CHOOSE i \in 1..26 : UpperLetters[i] = ch] ELSE ch

\* str.lower()
TextLower(text) == Tuple([i \in 1..Len(text) |-> ToLower(text[i])])

\* \w of a regular expression
IsWordChar(ch) ==
    ch \in Range(UpperLetters) \cup Range(LowerLetters) \cup Digits \cup {"_"}

\* \s of a regular expression
IsSpace(ch) == ch \in {" ", "\t", "\n"}

\* text[a:b] for 0 <= a
Slice(text, a, b) == SubSeq(text, a + 1, Min2(b, Len(text)))

\* c repeated n times
Rep(ch, n) == Tuple([i \in 1..n |-> ch])

Ellipsis == Rep(".", 3)

\* str.split(): the maximal runs of non-whitespace characters
RECURSIVE SplitFrom(_, _, _)
SplitFrom(text, i, word) ==
    IF i > Len(text) THEN (IF word = <<>> THEN <<>> ELSE <<word>>)
    ELSE IF IsSpace(text[i])
         THEN (IF word = <<>> THEN <<>> ELSE <<word>>) \o SplitFrom(text, i + 1, <<>>)
         ELSE SplitFrom(text, i + 1, Append(word, text[i]))

Split(text) == SplitFrom(text, 1, <<>>)

StopWords ==
    {<<"t", "h", "e">>, <<"a">>, <<"a", "n">>, <<"a", "n", "d">>, <<"o", "r">>,
     <<"b", "u", "t">>, <<"i", "n">>, <<"o", "n">>, <<"a", "t">>, <<"t", "o">>,
     <<"f", "o", "r">>, <<"o", "f">>, <<"w", "i", "t", "h">>, <<"b", "y">>, <<"i", "s">>,
     <<"a", "r", "e">>, <<"w", "a", "s">>, <<"w", "e", "r", "e">>, <<"b", "e">>,
     <<"b", "e", "e", "n">>, <<"b", "e", "i", "n", "g">>, <<"h", "a", "v", "e">>,
     <<"h", "a", "s">>, <<"h", "a", "d">>, <<"d", "o">>, <<"d", "o", "e", "s">>,
     <<"d", "i", "d">>, <<"w", "i", "l", "l">>, <<"w", "o", "u", "l", "d">>,
     <<"c", "o", "u", "l", "d">>, <<"s", "h", "o", "u", "l", "d">>, <<"m", "a", "y">>,
     <<"m", "i", "g", "h", "t">>, <<"c", "a", "n">>, <<"w", "h", "a", "t">>,
     <<"w", "h", "e", "r", "e">>, <<"w", "h", "e", "n">>, <<"w", "h", "y">>,
     <<"h", "o", "w">>}

\* _extract_query_terms
ExtractQueryTerms(query_text) ==
    IF query_text = <<>> THEN <<>>
    ELSE LET cleaned == SelectSeq(TextLower(query_text),
                                  LAMBDA ch : IsWordChar(ch) \/ IsSpace(ch) \/ ch = "-")
             terms == Split(cleaned)
         IN  SelectSeq(terms, LAMBDA term : Len(term) > 2 /\ term \notin StopWords)

\* the term stands in the text at 0-based position i
MatchesAt(text, term, i) ==
    /\ i + Len(term) <= Len(text)
    /\ \A k \in 1..Len(term) : text[i + k] = term[k]

\* 0-based positions at which the term stands in the text
MatchPositions(text, term) == {i \in 0..(Len(text) - Len(term)) : MatchesAt(text, term, i)}

\* str.find(term)
Find(text, term) ==
    IF MatchPositions(text, term) = {} THEN NoInt ELSE SetMin(MatchPositions(text, term))

\* len(re.findall(re.escape(term), text)): matches from left to right that
\* do not overlap
RECURSIVE CountFrom(_, _, _)
CountFrom(positions, width, from) ==
    LET later == {i \in positions : i >= from}
    IN  IF later = {} THEN 0 ELSE 1 + CountFrom(positions, width, SetMin(later) + width)

FindAllCount(term, text) == CountFrom(MatchPositions(text, term), Len(term), 0)

\* str.rfind(ch, lo, hi) for one character
RFindChar(text, ch, lo, hi) ==
    LET found == {i \in lo..(Min2(hi, Len(text)) - 1) : text[i + 1] = ch}
    IN  IF found = {} THEN NoInt ELSE SetMax(found)

\* CitationExtractor(): "max_snippet_length: int = 200"
max_snippet_length == 200

\* "step_size = 50"
step_size == 50

\* "if distance < 100:  # Close proximity bonus"
ProximityDistance == 100

\* "e > n * 0.7" in double arithmetic: n * 0.7 is rounded below 7n/10 for
\* these n, so that e = 7n/10 passes as well
RoundedBelow == {90, 170, 180}

ExceedsSevenTenths(e, n) == 10 * e > 7 * n \/ (n \in RoundedBelow /\ 10 * e = 7 * n)

\* "e > n * 0.8" in double arithmetic
ExceedsEightTenths(e, n) == 10 * e > 8 * n

\* the score of one window, in halves: one per match of a term, and half a
\* point per pair of terms whose first occurrences are less than 100 apart
WindowScore(window, query_terms) ==
    LET count[i \in 0..Len(query_terms)] ==
            IF i = 0 THEN 0 ELSE count[i - 1] + FindAllCount(query_terms[i], window)
        close == {p \in (1..Len(query_terms)) \X (1..Len(query_terms)) :
                     /\ p[1] < p[2]
                     /\ Find(window, query_terms[p[1]]) # NoInt
                     /\ Find(window, query_terms[p[2]]) # NoInt
                     /\ Abs(Find(window, query_terms[p[1]]) - Find(window, query_terms[p[2]]))
                            < ProximityDistance}
    IN  2 * count[Len(query_terms)] + Cardinality(close)

\* "for start in range(0, len(content) - window_size + 1, step_size)": the
\* first window with the highest score, or 0 if no window scores
RECURSIVE BestStartFrom(_, _, _, _, _)
BestStartFrom(content_lower, query_terms, start, best_start, best_score) ==
    IF start >= Len(content_lower) - max_snippet_length + 1 THEN best_start
    ELSE LET window == Slice(content_lower, start, start + max_snippet_length)
             score == WindowScore(window, query_terms)
         IN  IF score > best_score
             THEN BestStartFrom(content_lower, query_terms, start + step_size, start, score)
             ELSE BestStartFrom(content_lower, query_terms, start + step_size,
                                best_start, best_score)

\* _clean_snippet_boundaries
CleanSnippetBoundaries(snippet, is_start) ==
    IF snippet = <<>> THEN snippet
    ELSE LET prefixed == IF is_start /\ ~IsUpper(snippet[1]) THEN Ellipsis \o snippet
                         ELSE snippet
             sentence_end == SetMax({RFindChar(prefixed, ".", 0, Len(prefixed)),
                                     RFindChar(prefixed, "!", 0, Len(prefixed)),
                                     RFindChar(prefixed, "?", 0, Len(prefixed))})
         IN  IF ExceedsSevenTenths(sentence_end, Len(prefixed))
             THEN Slice(prefixed, 0, sentence_end + 1)
             ELSE IF Len(prefixed) >= max_snippet_length
                  THEN LET last_space == RFindChar(prefixed, " ", 0, max_snippet_length - 3)
                       IN  IF ExceedsEightTenths(last_space, Len(prefixed))
                           THEN Slice(prefixed, 0, last_space) \o Ellipsis
                           ELSE Slice(prefixed, 0, max_snippet_length - 3) \o Ellipsis
                  ELSE prefixed

\* _extract_snippet: (snippet, start_char, end_char)
ExtractSnippet(content, query_terms) ==
    IF content = <<>> THEN [snippet |-> <<>>, start_char |-> NoInt, end_char |-> NoInt]
    ELSE IF query_terms = <<>>
    THEN LET snippet == Slice(content, 0, max_snippet_length)
                        \o (IF Len(content) > max_snippet_length THEN Ellipsis ELSE <<>>)
         IN  [snippet |-> snippet, start_char |-> 0, end_char |-> Len(snippet)]
    ELSE LET best_start == BestStartFrom(TextLower(content), query_terms, 0, 0, 0)
             end_pos == Min2(best_start + max_snippet_length, Len(content))
             snippet == CleanSnippetBoundaries(Slice(content, best_start, end_pos),
                                               best_start > 0)
         IN  [snippet |-> snippet, start_char |-> best_start,
              end_char |-> best_start + Len(snippet)]

\* chunk contents: 249 characters ending in a term; 300 characters starting
\* with a term; none; a short sentence followed by a term; 300 characters
\* ending in two terms and a full stop
CiteChunkIds == {"P", "Q", "R", "S", "T"}

ContentOf(id) ==
    CASE id = "P" -> Rep("x", 246) \o <<"k", "e", "y">>
      [] id = "Q" -> <<"K", "e", "y", " ">> \o Rep("x", 296)
      [] id = "R" -> <<>>
      [] id = "S" -> Rep("w", 10) \o <<".", "k", "e", "y">>
      [] id = "T" -> Rep("x", 292) \o <<"k", "e", "y", " ", "e", "n", "d", ".">>

\* query texts: none, a term with punctuation, stop word and two terms, one
\* term twice
CiteQueries ==
    {<<>>, <<"K", "e", "y", "?">>,
     <<"t", "h", "e", " ", "k", "e", "y", " ", "e", "n", "d">>,
     <<"k", "e", "y", " ", "k", "e", "y">>}

\* _extract_snippet on the contents and queries above, evaluated once
KnownSnippets ==
    [content \in {ContentOf(id) : id \in CiteChunkIds},
     query_terms \in {ExtractQueryTerms(q) : q \in CiteQueries} |->
        ExtractSnippet(content, query_terms)] @@ <<>>

\* the bold marker
Bold == Rep("*", 2)

\* \b of a regular expression at 0-based position i: a word character on
\* exactly one side
AtWordBoundary(text, i) ==
    (i > 0 /\ IsWordChar(text[i])) # (i < Len(text) /\ IsWordChar(text[i + 1]))

\* the pattern \b term \b matches at 0-based position i, ignoring case
PatternMatchesAt(text, term, i) ==
    /\ MatchesAt(TextLower(text), term, i)
    /\ AtWordBoundary(text, i)
    /\ AtWordBoundary(text, i + Len(term))

\* 0-based positions at which the pattern matches
PatternPositions(text, term) ==
    {i \in 0..(Len(text) - Len(term)) : PatternMatchesAt(text, term, i)}

\* re.sub(pattern, '**term**', text, flags=re.IGNORECASE): one pass from left
\* to right over matches that do not overlap; `from` is where the scan stands
RECURSIVE SubFrom(_, _, _)
SubFrom(text, term, from) ==
    LET later == {i \in PatternPositions(text, term) : i >= from}
    IN  IF later = {} THEN Slice(text, from, Len(text))
        ELSE Slice(text, from, SetMin(later)) \o Bold \o term \o Bold
             \o SubFrom(text, term, SetMin(later) + Len(term))

\* "for term in sorted_terms: highlighted = re.sub(...)"
RECURSIVE HighlightEach(_, _)
HighlightEach(highlighted, sorted_terms) ==
    IF sorted_terms = <<>> THEN highlighted
    ELSE HighlightEach(SubFrom(highlighted, Head(sorted_terms), 0), Tail(sorted_terms))

\* _highlight_terms: sorted(query_terms, key=len, reverse=True) is stable
HighlightTerms(snippet, query_terms) ==
    IF query_terms = <<>> THEN snippet
    ELSE HighlightEach(snippet, SortDesc([i \in 1..Len(query_terms) |->
                                             <<Len(query_terms[i]), query_terms[i]>>]))

\* _highlight_terms on the snippets above, evaluated once
KnownHighlights ==
    [content \in {ContentOf(id) : id \in CiteChunkIds},
     query_terms \in {ExtractQueryTerms(q) : q \in CiteQueries} |->
        HighlightTerms(KnownSnippets[content, query_terms].snippet, query_terms)] @@ <<>>

\* the Citation built from one result
MakeCitation(result, query_terms) ==
    LET found == KnownSnippets[result.content, query_terms]
    IN  [chunk_id |-> result.chunk_id,
         page_number |-> result.page_number,
         section_ref |-> result.section_ref,
         section_title |-> result.section_title,
         text_snippet |-> found.snippet,
         relevance_score |-> result.hybrid_score,
         start_char |-> found.start_char,
         end_char |-> found.end_char,
         highlighted_snippet |-> KnownHighlights[result.content, query_terms]]

\* "for result in hybrid_results": stop at max_citations, skip results below
\* min_relevance
RECURSIVE CollectCitations(_, _, _, _, _)
CollectCitations(results, query_terms, maxc, minrel, collected) ==
    IF results = <<>> \/ Len(collected) >= maxc THEN collected
    ELSE IF Head(results).hybrid_score < minrel
         THEN CollectCitations(Tail(results), query_terms, maxc, minrel, collected)
         ELSE CollectCitations(Tail(results), query_terms, maxc, minrel,
                               Append(collected, MakeCitation(Head(results), query_terms)))

\* an extraction that forgets the relevance threshold
ExtractCitationsUnfiltered(query_text, results, maxc, minrel) ==
    LET collected == CollectCitations(results, ExtractQueryTerms(query_text), maxc, 0, <<>>)
    IN  SliceTo(SortDesc([i \in 1..Len(collected) |->
                             <<collected[i].relevance_score, collected[i]>>]), maxc)

\* extract_citations
ExtractCitations(query_text, results, maxc, minrel) ==
    IF results = <<>> THEN <<>>
    ELSE LET collected ==
                 CollectCitations(results, ExtractQueryTerms(query_text), maxc, minrel, <<>>)
         IN  SliceTo(SortDesc([i \in 1..Len(collected) |->
                                  <<collected[i].relevance_score, collected[i]>>]), maxc)

\* str.strip()
StripText(text) ==
    LET solid == {i \in 1..Len(text) : ~IsSpace(text[i])}
    IN  IF solid = {} THEN <<>> ELSE SubSeq(text, SetMin(solid), SetMax(solid))

\* " ... ".join(snippet.strip() for snippet in unique_snippets)
RECURSIVE JoinSnippets(_)
JoinSnippets(unique_snippets) ==
    IF unique_snippets = <<>> THEN <<>>
    ELSE IF Len(unique_snippets) = 1 THEN StripText(unique_snippets[1])
    ELSE StripText(Head(unique_snippets)) \o <<" ">> \o Ellipsis \o <<" ">>
         \o JoinSnippets(Tail(unique_snippets))

\* _combine_snippets
CombineSnippets(snippets) ==
    IF snippets = <<>> THEN <<>>
    ELSE IF Len(snippets) = 1 THEN snippets[1]
    ELSE LET snippet_clean == [i \in 1..Len(snippets) |-> TextLower(StripText(snippets[i]))]
             added == {i \in 1..Len(snippets) :
                          /\ Len(snippet_clean[i]) > 10
                          /\ \A j \in 1..(i - 1) : snippet_clean[j] # snippet_clean[i]}
             unique_snippets ==
                 SelectSeq(Tuple([i \in 1..Len(snippets) |->
                                    IF i \in added THEN <<snippets[i]>> ELSE <<>>]),
                           LAMBDA one : one # <<>>)
             combined ==
                 JoinSnippets(Tuple([i \in 1..Len(unique_snippets) |-> unique_snippets[i][1]]))
         IN  IF Len(combined) > max_snippet_length * 2
             THEN Slice(combined, 0, max_snippet_length * 2 - 3) \o Ellipsis
             ELSE combined

\* sum of a sequence of numbers
RECURSIVE SumSeq(_)
SumSeq(numbers) == IF numbers = <<>> THEN 0 ELSE Head(numbers) + SumSeq(Tail(numbers))

\* the keys f"page_{n}", f"section_{ref}", f"chunk_{id}"
GroupKey(kind, number, name) == [kind |-> kind, number |-> number, name |-> name]

\* the key group_citations files a citation under; NoInt when it files it
\* under none
KeyOf(citation, mode) ==
    IF mode = "page" /\ citation.page_number # NoInt
    THEN GroupKey("page", citation.page_number, "")
    ELSE IF mode = "section" /\ citation.section_ref \notin {None, ""}
    THEN GroupKey("section", NoInt, citation.section_ref)
    ELSE IF mode = "source"
    THEN (IF citation.page_number # NoInt THEN GroupKey("page", citation.page_number, "")
          ELSE IF citation.section_ref \notin {None, ""}
          THEN GroupKey("section", NoInt, citation.section_ref)
          ELSE GroupKey("chunk", NoInt, citation.chunk_id))
    ELSE GroupKey("none", NoInt, "")

\* one CitationGroup: the members by descending relevance, the first
\* section_title among them
MakeGroup(key, members) ==
    LET group_citations == SortDesc([i \in 1..Len(members) |->
                                        <<members[i].relevance_score, members[i]>>])
        titled == {i \in 1..Len(group_citations) :
                      group_citations[i].section_title \notin {None, ""}}
    IN  [source_ref |-> key,
         source_title |-> IF titled = {} THEN None
                          ELSE group_citations[SetMin(titled)].section_title,
         citations |-> group_citations,
         combined_snippet |->
             CombineSnippets(Tuple([i \in 1..Len(group_citations) |->
                                      group_citations[i].text_snippet])),
         total_relevance |->
             SumSeq(Tuple([i \in 1..Len(group_citations) |->
                             group_citations[i].relevance_score]))]

\* group_citations: the groups dict keeps the keys in order of first use
GroupCitations(cits, mode) ==
    IF cits = <<>> THEN <<>>
    ELSE LET filed == {i \in 1..Len(cits) : KeyOf(cits[i], mode).kind # "none"}
             firsts == {i \in filed :
                           \A j \in filed : j < i => KeyOf(cits[j], mode) # KeyOf(cits[i], mode)}
             members(key) == SelectSeq(cits, LAMBDA c : KeyOf(c, mode) = key)
             nth(k) == CHOOSE i \in firsts : Cardinality({j \in firsts : j <= i}) = k
             citation_group(k) == MakeGroup(KeyOf(cits[nth(k)], mode),
                                            members(KeyOf(cits[nth(k)], mode)))
         IN  SortDesc([k \in 1..Cardinality(firsts) |->
                          <<citation_group(k).total_relevance, citation_group(k)>>])

\* group_by: "page", "section" or "source"
GroupModes == {"page", "section", "source"}

\* number of hybrid results handed to one call
MaxResults == 2

\* hybrid scores, in hundredths
CiteScores == {30, 60}

\* page_number and section_ref of the chunks: some chunks lack one or both
CitePageOf(id) == CASE id \in {"P", "Q"} -> 1 [] id = "T" -> 2 [] OTHER -> NoInt

\* section_title of the chunks
CiteTitleOf(id) == IF id = "T" THEN "Results" ELSE None

CiteSectionOf(id) == IF id \in {"P", "R", "T"} THEN "s1" ELSE None

\* the HybridResult fields extract_citations reads
CiteResult(id, s) ==
    [chunk_id |-> id, content |-> ContentOf(id), page_number |-> CitePageOf(id),
     section_ref |-> CiteSectionOf(id), section_title |-> CiteTitleOf(id),
     hybrid_score |-> Hundredths(s)]

CiteRows == {CiteResult(id, s) : id \in CiteChunkIds, s \in CiteScores}

\* max_citations: none, one, the default of five
CitationLimits == {0, 1, 5}

\* min_relevance: the default 0.1, and 0.5
MinRelevances == {Hundredths(10), Hundredths(50)}

CiteInit ==
    /\ cite_query \in CiteQueries
    /\ cite_results \in SeqsUpTo(CiteRows, MaxResults)
    /\ max_citations \in CitationLimits
    /\ min_relevance \in MinRelevances
    /\ cite_pc = "call"
    /\ citations = <<>>
    /\ group_by = None
    /\ citation_groups = <<>>

\* one call extract_citations(cite_query, cite_results, max_citations, min_relevance)
ExtractCall ==
    /\ cite_pc = "call"
    /\ citations' = ExtractCitations(cite_query, cite_results, max_citations, min_relevance)
    /\ cite_pc' = "returned"
    /\ UNCHANGED <<cite_query, cite_results, max_citations, min_relevance, group_by,
                   citation_groups, rankVars, queryVars, cacheVars, weightVars, quizVars>>

CiteNext == ExtractCall

CiteSpecInit == CiteInit /\ RankParked /\ QueryParked /\ CacheParked /\ WeightParked /\ QuizParked

SpecCite == CiteSpecInit /\ [][CiteNext]_vars

\* --------------------------------------------------------------- SpecGroup
\* group_citations on a list extract_citations returned with its default
\* max_citations and min_relevance
DefaultMaxCitations == 5

DefaultMinRelevance == Hundredths(10)

GroupInit ==
    /\ cite_query \in CiteQueries
    /\ cite_results \in SeqsUpTo(CiteRows, MaxResults)
    /\ max_citations = DefaultMaxCitations
    /\ min_relevance = DefaultMinRelevance
    /\ cite_pc = "returned"
    /\ citations = ExtractCitations(cite_query, cite_results, max_citations, min_relevance)
    /\ group_by = None
    /\ citation_groups = <<>>

\* one call group_citations(citations, mode)
GroupCall ==
    /\ cite_pc = "returned"
    /\ \E mode \in GroupModes :
          /\ group_by' = mode
          /\ citation_groups' = GroupCitations(citations, mode)
    /\ cite_pc' = "grouped"
    /\ UNCHANGED <<cite_query, cite_results, max_citations, min_relevance, citations,
                   rankVars, queryVars, cacheVars, weightVars, quizVars>>

GroupNext == GroupCall

GroupSpecInit == GroupInit /\ RankParked /\ QueryParked /\ CacheParked /\ WeightParked /\ QuizParked

SpecGroup == GroupSpecInit /\ [][GroupNext]_vars

\* ---------------------------------------------------------------- SpecQuiz
\* concurrent submit_quiz_answers calls for one quiz attempt of one user
MaxSubmitters == 2

\* answers of one submission that match a question of the attempt
MaxAnswers == 2

Submitters == 1..MaxSubmitters

\* QuizSession objects: 0 is the one generate_quiz put into active_sessions,
\* s is the one _load_quiz_session builds for caller s
SessionObjects == 0..MaxSubmitters

\* the attempt exists and is not completed: generate_quiz has stored it, and
\* on its own orchestrator has put the session into active_sessions
QuizInit ==
    /\ quiz_shared \in BOOLEAN
    /\ quiz_completed_at = FALSE
    /\ quiz_answer_batches = 0
    /\ session_completed = [o \in SessionObjects |-> FALSE]
    /\ sub_pc = [s \in Submitters |-> "idle"]
    /\ sub_session = [s \in Submitters |-> NoInt]
    /\ sub_remaining = [s \in Submitters |-> 0]
    /\ sub_result = [s \in Submitters |-> "none"]

\* the call raises
SubmitRaises(s, reason, flags) ==
    /\ sub_pc' = [sub_pc EXCEPT ![s] = "raised"]
    /\ sub_result' = [sub_result EXCEPT ![s] = reason]
    /\ session_completed' = flags
    /\ UNCHANGED sub_remaining

\* submit_quiz_answers from "# Validate session" up to its next await, on
\* session object o whose flags are as given: the is_completed and expiry
\* tests, then the first evaluate_answer, or with no answer to evaluate
\* "session.is_completed = True" and the call of _store_quiz_results
ValidateAndEvaluate(s, o, flags) ==
    IF flags[o] THEN SubmitRaises(s, "already_completed", flags)
    ELSE \/ SubmitRaises(s, "expired", flags)
         \/ \E n \in 0..MaxAnswers :
               /\ sub_remaining' = [sub_remaining EXCEPT ![s] = n]
               /\ sub_result' = sub_result
               /\ IF n = 0
                  THEN /\ session_completed' = [flags EXCEPT ![o] = TRUE]
                       /\ sub_pc' = [sub_pc EXCEPT ![s] = "storing"]
                  ELSE /\ session_completed' = flags
                       /\ sub_pc' = [sub_pc EXCEPT ![s] = "evaluating"]

\* submit_quiz_answers starts: "session = self.active_sessions.get(attempt_id)",
\* and without one "await self._load_quiz_session(attempt_id, user_id)"
SubmitStart(s) ==
    /\ sub_pc[s] = "idle"
    /\ IF quiz_shared
       THEN /\ sub_session' = [sub_session EXCEPT ![s] = 0]
            /\ ValidateAndEvaluate(s, 0, session_completed)
       ELSE /\ sub_session' = [sub_session EXCEPT ![s] = s]
            /\ sub_pc' = [sub_pc EXCEPT ![s] = "loading"]
            /\ UNCHANGED <<session_completed, sub_remaining, sub_result>>
    /\ UNCHANGED <<quiz_shared, quiz_completed_at, quiz_answer_batches,
                   rankVars, queryVars, cacheVars, weightVars, citeVars>>

\* _load_quiz_session resumes: with None (no row, or an exception), or with
\* a new QuizSession whose is_completed is "completed_at is not None"
LoadResume(s) ==
    /\ sub_pc[s] = "loading"
    /\ \/ SubmitRaises(s, "not_found", session_completed)
       \/ ValidateAndEvaluate(s, s, [session_completed EXCEPT ![s] = quiz_completed_at])
    /\ UNCHANGED <<quiz_shared, quiz_completed_at, quiz_answer_batches, sub_session,
                   rankVars, queryVars, cacheVars, weightVars, citeVars>>

\* "await self.question_evaluator.evaluate_answer(...)" resumes: it raises,
\* or the loop goes on to the next answer, or after the last answer
\* "session.is_completed = True" and _store_quiz_results is called
EvaluateResume(s) ==
    /\ sub_pc[s] = "evaluating"
    /\ \/ SubmitRaises(s, "error", session_completed)
       \/ /\ sub_remaining' = [sub_remaining EXCEPT ![s] = sub_remaining[s] - 1]
          /\ sub_result' = sub_result
          /\ IF sub_remaining[s] = 1
             THEN /\ session_completed' = [session_completed EXCEPT ![sub_session[s]] = TRUE]
                  /\ sub_pc' = [sub_pc EXCEPT ![s] = "storing"]
             ELSE UNCHANGED <<session_completed, sub_pc>>
    /\ UNCHANGED <<quiz_shared, quiz_completed_at, quiz_answer_batches, sub_session,
                   rankVars, queryVars, cacheVars, weightVars, citeVars>>

\* "await self._store_quiz_results(...)" resumes: the transaction raised and
\* was rolled back, or it set completed_at and inserted the answers, after
\* which the call returns its result
StoreResume(s) ==
    /\ sub_pc[s] = "storing"
    /\ \/ /\ SubmitRaises(s, "error", session_completed)
          /\ UNCHANGED <<quiz_completed_at, quiz_answer_batches>>
       \/ /\ quiz_completed_at' = TRUE
          /\ quiz_answer_batches' = quiz_answer_batches + 1
          /\ sub_pc' = [sub_pc EXCEPT ![s] = "returned"]
          /\ sub_result' = [sub_result EXCEPT ![s] = "success"]
          /\ UNCHANGED <<session_completed, sub_remaining>>
    /\ UNCHANGED <<quiz_shared, sub_session,
                   rankVars, queryVars, cacheVars, weightVars, citeVars>>

QuizNext ==
    \/ \E s \in Submitters : SubmitStart(s)
    \/ \E s \in Submitters : LoadResume(s)
    \/ \E s \in Submitters : EvaluateResume(s)
    \/ \E s \in Submitters : StoreResume(s)

QuizSpecInit ==
    QuizInit /\ RankParked /\ QueryParked /\ CacheParked /\ WeightParked /\ CiteParked

SpecQuiz == QuizSpecInit /\ [][QuizNext]_vars

\* ------------------------------------------------------ claims, citations
\* C16: extract_citations returns at most max_citations citations, in
\* non-increasing relevance_score order, each with relevance_score >=
\* min_relevance and equal to the hybrid_score of its source result; when
\* every hybrid score is below min_relevance it returns the empty list.
C16_CitationsCappedSortedFiltered ==
    cite_pc = "returned" =>
        /\ Len(citations) <= max_citations
        /\ \A i \in 1..(Len(citations) - 1) :
              citations[i].relevance_score >= citations[i + 1].relevance_score
        /\ \A i \in 1..Len(citations) :
              /\ citations[i].relevance_score >= min_relevance
              /\ \E j \in 1..Len(cite_results) :
                    /\ cite_results[j].chunk_id = citations[i].chunk_id
                    /\ cite_results[j].hybrid_score = citations[i].relevance_score
        /\ (\A j \in 1..Len(cite_results) : cite_results[j].hybrid_score < min_relevance)
              => citations = <<>>

\* C16 witness: with min_relevance 0.5, a result below it followed by one
\* above it gave exactly the citation of the second
C16_Witness ==
    /\ cite_pc = "returned"
    /\ min_relevance = Hundredths(50)
    /\ max_citations = 5
    /\ Len(cite_results) = 2
    /\ cite_results[1].hybrid_score = Hundredths(30)
    /\ cite_results[2].hybrid_score = Hundredths(60)
    /\ Len(citations) = 1
    /\ citations[1].chunk_id = cite_results[2].chunk_id
    /\ citations[1].relevance_score = Hundredths(60)

\* C17 (as claimed): every citation has 0 < len(text_snippet) <=
\* 2*max_snippet_length, for any content and any query.
C17_SnippetLengthBounds ==
    cite_pc = "returned" =>
        \A i \in 1..Len(citations) :
            /\ 0 < Len(citations[i].text_snippet)
            /\ Len(citations[i].text_snippet) <= 2 * max_snippet_length

\* the query terms that occur in the content, and where (0-based)
Occurrences(content, query_terms) ==
    {<<k, i>> \in (1..Len(query_terms)) \X (0..Len(content)) :
        MatchesAt(TextLower(content), query_terms[k], i)}

\* the content holds query terms, all of them within its final 30 characters
ClusteredAtEnd(content, query_terms) ==
    /\ Occurrences(content, query_terms) # {}
    /\ \A o \in Occurrences(content, query_terms) : o[2] >= Len(content) - 30

\* C18 (as claimed): if all occurrences of the query terms lie in the final
\* 30 characters of the content, the snippet contains every term of that
\* cluster, and for content longer than the window it does not start at the
\* chunk's opening.
C18_SnippetAtTermCluster ==
    cite_pc = "returned" =>
        \A i \in 1..Len(citations) :
            LET content == ContentOf(citations[i].chunk_id)
                query_terms == ExtractQueryTerms(cite_query)
            IN  ClusteredAtEnd(content, query_terms) =>
                    /\ \A o \in Occurrences(content, query_terms) :
                          Find(TextLower(citations[i].text_snippet), query_terms[o[1]]) # NoInt
                    /\ Len(content) > max_snippet_length => citations[i].start_char > 0

\* number of bold marker characters in a text
Stars(text) == Cardinality({p \in 1..Len(text) : text[p] = "*"})

\* the word-bounded, case-insensitive occurrences of the terms in a text
TermOccurrences(text, terms) ==
    {<<term, i>> \in terms \X (0..Len(text)) : PatternMatchesAt(text, term, i)}

\* C24 (as claimed): in every citation each word-bounded, case-insensitive
\* occurrence of a query term is wrapped in bold markers exactly once: the
\* highlighted snippet holds two marker characters on either side of each
\* occurrence and no others, and no marker is doubled.
C24_EachTermWrappedOnce ==
    cite_pc = "returned" =>
        \A k \in 1..Len(citations) :
            LET highlighted == citations[k].highlighted_snippet
                terms == Range(ExtractQueryTerms(cite_query))
            IN  /\ Stars(highlighted) =
                      4 * Cardinality(TermOccurrences(citations[k].text_snippet, terms))
                /\ \A p \in 1..(Len(highlighted) - 3) :
                      ~(\A d \in 0..3 : highlighted[p + d] = "*")

\* C25 (as claimed): for every citation built from non-empty content,
\* 0 <= start_char <= end_char <= len(content), and the content between the
\* two offsets is what the snippet shows, ellipsis markers in front of or
\* behind it not counted.
C25_OffsetsIntoContent ==
    cite_pc = "returned" =>
        \A k \in 1..Len(citations) :
            LET content == ContentOf(citations[k].chunk_id)
                start_char == citations[k].start_char
                end_char == citations[k].end_char
            IN  content # <<>> =>
                  /\ 0 <= start_char
                  /\ start_char <= end_char
                  /\ end_char <= Len(content)
                  /\ \E lead, trail \in {<<>>, Ellipsis} :
                        citations[k].text_snippet =
                            lead \o Slice(content, start_char, end_char) \o trail

\* C26 (as claimed): whatever the order of hybrid_results, the citations are
\* the highest-scoring qualifying results: for every score strictly greater
\* than some returned relevance_score, as many citations carry it as there
\* are results with that hybrid_score (none of them was left out).
C26_TopScoringReturned ==
    cite_pc = "returned" =>
        \A k \in 1..Len(citations), i \in 1..Len(cite_results) :
            (/\ cite_results[i].hybrid_score >= min_relevance
             /\ cite_results[i].hybrid_score > citations[k].relevance_score) =>
                Cardinality({j \in 1..Len(citations) :
                                citations[j].relevance_score = cite_results[i].hybrid_score})
                = Cardinality({j \in 1..Len(cite_results) :
                                  cite_results[j].hybrid_score = cite_results[i].hybrid_score})

\* C28 (as claimed): in each mode group_citations places every input
\* citation in exactly one group: the group sizes sum to the number of input
\* citations, and the groups' total_relevance sums to the sum of all input
\* relevance scores.
C28_GroupsPartitionCitations ==
    cite_pc = "grouped" =>
        /\ SumSeq(Tuple([g \in 1..Len(citation_groups) |->
                            Len(citation_groups[g].citations)])) = Len(citations)
        /\ SumSeq(Tuple([g \in 1..Len(citation_groups) |->
                            citation_groups[g].total_relevance]))
           = SumSeq(Tuple([i \in 1..Len(citations) |-> citations[i].relevance_score]))

\* C29: a lookup that ended with the embedding collaborator raising or
\* returning nothing left the cache as it was, entry for entry: nothing was
\* inserted, nothing evicted.  A lookup is answered from the cache only for
\* a key the cache holds, so the text of a failed lookup, which the failure
\* did not cache, goes to the collaborator again.
C29_FailureLeavesCache ==
    /\ last_op.kind = "failed" => embedding_cache = last_op.before
    /\ last_op.kind = "hit" => last_op.key \in Range(last_op.before)
    /\ last_op.kind = "miss" => last_op.key \notin Range(last_op.before)

\* C29 witness: a lookup failed while the cache was above its limit, where a
\* success would have evicted the oldest entry, and its key is still absent
C29_Witness ==
    /\ last_op.kind = "failed"
    /\ Len(last_op.before) > CACHE_LIMIT
    /\ last_op.key \notin Range(embedding_cache)

\* ----------------------------------------------------------- claims, cache
\* C7 (as claimed): under any interleaving of callers the cache holds at most
\* 100 entries, and it stays a map (no key twice).
C7_CacheAtMostCapacity ==
    /\ Len(embedding_cache) <= CACHE_LIMIT
    /\ \A i, j \in 1..Len(embedding_cache) :
          embedding_cache[i] = embedding_cache[j] => i = j

\* keys the last operation removed from the cache
Evicted == Range(last_op.before) \ Range(embedding_cache)

\* C8, first part: what an insert evicts is the entry that entered the
\* cache earliest.
C8_EvictsOldest ==
    last_op.kind = "insert" => \A k \in Evicted : k = Head(last_op.before)

\* C8, second part: a cache hit leaves the cache and its order unchanged.
C8_HitKeepsOrder ==
    last_op.kind = "hit" => embedding_cache = last_op.before

\* C8, third part: a key that is still cached is never inserted again.
C8_NoReinsert ==
    last_op.kind = "insert" => last_op.key \notin Range(last_op.before)

\* C8 (as claimed): eviction is oldest-first, a hit does not change the
\* eviction order, and a key that is still cached is never re-inserted.
C8_FifoEviction == C8_EvictsOldest /\ C8_HitKeepsOrder /\ C8_NoReinsert

\* ----------------------------------------------------------- claims, query
\* C2: the ranker is not started before both retrieve calls have completed
\* (returned or raised); a retriever that raised contributes the empty list
\* and the other retriever's list reaches rank unchanged.
C2_NoPartialFusion ==
    q_pc = "ranked" =>
        \A t \in Tasks :
            /\ task_pc[t] \in {"returned", "raised"}
            /\ task_pc[t] = "raised" => rank_args[t] = <<>>
            /\ task_pc[t] = "returned" => rank_args[t] = task_result[t]

\* C2 witness: the sparse retriever raised, the dense one returned rows, and
\* rank got the empty list and those rows
C2_Witness ==
    /\ q_pc = "ranked"
    /\ task_pc["bm25"] = "raised"
    /\ task_pc["vector"] = "returned"
    /\ task_result["vector"] # <<>>
    /\ rank_args["bm25"] = <<>>
    /\ rank_args["vector"] = task_result["vector"]
    /\ query_results # <<>>

\* C3: the two retrievals are forked together, before either runs or is
\* joined: whenever one of them has been started, so has the other.
C3_ForkBothBeforeJoin ==
    q_pc \in {"gather", "ranked"} => \A t \in Tasks : task_pc[t] # "unforked"

\* C3 witness: the sparse retrieval has run to completion with rows while the
\* dense retriever is still waiting for its query embedding
C3_Witness ==
    /\ q_pc = "gather"
    /\ task_pc["bm25"] = "returned"
    /\ task_result["bm25"] # <<>>
    /\ task_pc["vector"] = "embedding"

\* C4 (as claimed): BM25Retriever.retrieve never propagates an exception.
C4_Bm25NeverRaises ==
    q_pc \in {"gather", "ranked"} => task_pc["bm25"] # "raised"

\* C5 (as claimed): VectorRetriever.retrieve never propagates an exception.
C5_VectorNeverRaises ==
    q_pc \in {"gather", "ranked"} => task_pc["vector"] # "raised"

\* C6 (as claimed): no retrieve call blocks forever: a retriever coroutine
\* that has not completed can always take its next step, whichever
\* collaborator fails to respond.
C6_NoRetrievalBlocksForever ==
    q_pc = "gather" => \A t \in Tasks : Completed(t) \/ ENABLED TaskStep(t)

\* C9 (as claimed): a query that comes through rag_query with a text whose
\* normalized form an earlier rag_query has embedded does not call the
\* embedding collaborator.
C9_CacheOutlivesQuery ==
    (q_pc = "gather" /\ via_entry /\ task_pc["vector"] = "embedding") =>
        CacheKey(question) \notin served

\* C20 (as claimed): when both retrievers return nothing, the ranked list is
\* empty and the caller of the query, streaming or not, receives a
\* no-results outcome, never an error outcome.
C20_EmptyEvidenceIsNormal ==
    [][(/\ q_pc = "ranked"
        /\ \A t \in Tasks : task_pc[t] = "returned" /\ task_result[t] = <<>>
        /\ q_pc' = "idle")
       => (query_results = <<>> /\ query_outcome' = "no_results")]_vars

\* ------------------------------------------------------------ claims, rank
\* chunk ids present in either argument of the call, read off the arguments
InputIds ==
    {r.chunk_id : r \in Range(bm25_results)} \cup {r.chunk_id : r \in Range(vector_results)}

\* number of entries of a result list that carry the chunk id
CountId(results, id) == Cardinality({i \in 1..Len(results) : results[i].chunk_id = id})

\* C1: with a limit of at least the number of distinct chunk ids, rank returns
\* exactly one HybridResult for every chunk id present in either input list:
\* no id omitted, none twice, none from outside the inputs.
C1_UnionComplete ==
    (rank_pc = "returned" /\ limit >= Cardinality(InputIds)) =>
        /\ \A id \in InputIds : CountId(final_results, id) = 1
        /\ \A i \in 1..Len(final_results) : final_results[i].chunk_id \in InputIds

\* C1 witness: a call whose dense list repeats a chunk id, whose sparse list
\* holds an id the dense list lacks, and whose result carries both
C1_Witness ==
    /\ rank_pc = "returned"
    /\ limit >= Cardinality(InputIds)
    /\ Len(vector_results) = 2
    /\ vector_results[1].chunk_id = vector_results[2].chunk_id
    /\ \E r \in Range(bm25_results) : r.chunk_id \notin {v.chunk_id : v \in Range(vector_results)}
    /\ Len(final_results) = 2

\* C10: diversity never drops results: the call returns as many results as
\* the same call with diversity_factor = 0, and the diversity filter returns
\* each chunk exactly as often as it was given it.
C10_DiversityNeverDrops ==
    rank_pc = "returned" =>
        LET sorted == RankSorted(bm25_results, vector_results, set_order)
            plain == IF bm25_results = <<>> /\ vector_results = <<>> THEN <<>>
                     ELSE LimitResults(sorted, limit)
        IN  /\ Len(final_results) = Len(plain)
            /\ limit >= Len(sorted) =>
                  \A id \in ChunkIds : CountId(final_results, id) = CountId(sorted, id)
            /\ \A id \in ChunkIds :
                  CountId(Diversify(sorted, diversity_factor), id) = CountId(sorted, id)

\* C10 witness: a call with diversity on in which the penalty moved a result
\* ahead of one with a higher hybrid score, and nothing was truncated
C10_Witness ==
    /\ rank_pc = "returned"
    /\ diversity_factor > 0
    /\ limit >= Cardinality(InputIds)
    /\ Len(final_results) = 3
    /\ \E i \in 1..2 : final_results[i].hybrid_score < final_results[i + 1].hybrid_score
    /\ \E i \in 1..3 : final_results[i].diversity_penalty > 0

\* C11 (as claimed): the list rank returns is in non-increasing order of
\* hybrid_score, whatever the diversity_factor.
C11_SortedByHybridScore ==
    rank_pc = "returned" =>
        \A i \in 1..(Len(final_results) - 1) :
            final_results[i].hybrid_score >= final_results[i + 1].hybrid_score

\* positions (1-based) at which a list holds the chunk id
PositionsOf(list, id) == {p \in 1..Len(list) : list[p].chunk_id = id}

\* what one side contributes for a chunk: nothing if the list lacks it, else
\* its normalized score and 1/(60 + r + 1) at a 0-based position r it has
SideCases(list, normalized, id) ==
    IF PositionsOf(list, id) = {} THEN {[norm |-> 0, rrf |-> 0]}
    ELSE {[norm |-> normalized[p][2], rrf |-> Scale \div (60 + (p - 1) + 1)] :
             p \in PositionsOf(list, id)}

\* 0.8*(0.4*sparse_norm + 0.6*dense_norm) + 0.2*rrf, in units of 1/Scale
ClaimedScore(sparse_norm, dense_norm, rrf) ==
    (8 * ((4 * sparse_norm + 6 * dense_norm) \div 10) + 2 * rrf) \div 10

\* C12: every returned HybridResult has hybrid_score =
\* 0.8*(sparse_weight*sparse_norm + dense_weight*dense_norm) + 0.2*rrf, a side
\* without the chunk contributing 0 and rrf summing 1/(60 + r + 1) over the
\* lists that hold the chunk at 0-based position r.
C12_ScoreFormula ==
    rank_pc = "returned" =>
        \A i \in 1..Len(final_results) :
            LET r == final_results[i]
            IN  \E b \in SideCases(bm25_results, NormalizeBm25Scores(bm25_results), r.chunk_id),
                   v \in SideCases(vector_results, NormalizeVectorScores(vector_results),
                                   r.chunk_id) :
                    r.hybrid_score = ClaimedScore(b.norm, v.norm, b.rrf + v.rrf)

\* C12 witness: a call that returned a chunk held by both lists, second in
\* the dense one, and a chunk held by the sparse list only
C12_Witness ==
    /\ rank_pc = "returned"
    /\ Len(vector_results) = 2
    /\ vector_results[1].chunk_id = "C"
    /\ vector_results[2].chunk_id = "B"
    /\ \E i, j \in 1..Len(final_results) :
          /\ final_results[i].chunk_id = "B"
          /\ final_results[i].rank_bm25 # NoInt
          /\ final_results[i].rank_vector = 2
          /\ final_results[j].chunk_id = "A"
          /\ final_results[j].rank_vector = NoInt
          /\ final_results[j].hybrid_score > 0

\* all rows of a list carry the same raw score
AllEqual(raw) == \A i, j \in 1..Len(raw) : raw[i] = raw[j]

\* normalized scores lie in [0,1], and are 1.0 when the raw scores are equal
UnitRange(normalized, raw) ==
    \A i \in 1..Len(normalized) :
        /\ 0 <= normalized[i][2]
        /\ normalized[i][2] <= Scale
        /\ AllEqual(raw) => normalized[i][2] = Scale

\* C13: for any non-empty sparse or dense list every normalized score lies
\* in [0,1], and equals 1.0 when all raw scores of the list are equal.
C13_NormalizationBounds ==
    rank_pc = "returned" =>
        /\ UnitRange(NormalizeBm25Scores(bm25_results),
                     [i \in 1..Len(bm25_results) |-> bm25_results[i].score])
        /\ UnitRange(NormalizeVectorScores(vector_results),
                     [i \in 1..Len(vector_results) |-> vector_results[i].similarity_score])
        /\ \A i \in 1..Len(final_results) :
              /\ final_results[i].bm25_normalized \in 0..Scale
              /\ final_results[i].vector_normalized \in 0..Scale

\* C13 witness: a call whose dense list holds a similarity above 1.0 next to
\* a different one, and whose sparse list has one row, normalized to 1.0
C13_Witness ==
    /\ rank_pc = "returned"
    /\ Len(bm25_results) = 1
    /\ Len(vector_results) = 2
    /\ vector_results[1].similarity_score = 110
    /\ vector_results[2].similarity_score = 65
    /\ \E i \in 1..Len(final_results) : final_results[i].bm25_normalized = Scale
    /\ \E i \in 1..Len(final_results) :
          /\ final_results[i].vector_score = 110
          /\ final_results[i].vector_normalized = Scale

\* C15 (as claimed): rank called with a negative limit raises instead of
\* returning a list.
C15_NegativeLimitRaises == rank_pc = "returned" => limit >= 0

\* ------------------------------------------------- claims, worked scenario
\* C21: for sparse [(A,0.8),(B,0.6)] and dense [(B,0.9),(C,0.7)] with weights
\* (0.4,0.6), a call whose limit does not truncate returns exactly the chunks
\* A, B and C; B, the only chunk of both lists, comes first; A's score is
\* built from its sparse normalized score 1.0 and its sparse term 1/61 alone,
\* C's from its dense normalized score 0.7 and its dense term 1/62 alone.
C21_ScenarioRanking ==
    (rank_pc = "returned" /\ limit >= 3) =>
        /\ Len(final_results) = 3
        /\ {final_results[i].chunk_id : i \in 1..Len(final_results)} = {"A", "B", "C"}
        /\ final_results[1].chunk_id = "B"
        /\ \A i \in 1..Len(final_results) :
              /\ final_results[i].chunk_id = "A" =>
                    final_results[i].hybrid_score = ClaimedScore(Scale, 0, Scale \div 61)
              /\ final_results[i].chunk_id = "C" =>
                    final_results[i].hybrid_score =
                        ClaimedScore(0, Hundredths(70), Scale \div 62)

\* C21 witness: the scenario was ranked with the strongest diversity factor,
\* all three chunks on one section and page, and nothing was truncated
C21_Witness ==
    /\ rank_pc = "returned"
    /\ limit >= 3
    /\ diversity_factor = 10
    /\ Len(final_results) = 3
    /\ final_results[1].chunk_id = "B"
    /\ \A i \in 1..3 : final_results[i].section_ref = "s1" /\ final_results[i].page_number = 1
    /\ final_results[3].diversity_penalty > 0

\* (score - min)/(max - min) over the raw scores of one list, in units of
\* 1/Scale
MinMaxOf(score, raw) == ((score - SetMin(raw)) * Scale) \div (SetMax(raw) - SetMin(raw))

\* C22 (as claimed): each returned result carries, for every list that holds
\* its chunk and whose raw scores are not all equal, the normalized score
\* (score - min)/(max - min) over that list's own scores, for the dense list
\* as for the sparse one.
C22_MinMaxBothLists ==
    rank_pc = "returned" =>
        LET sparse_raw == {bm25_results[i].score : i \in 1..Len(bm25_results)}
            dense_raw == {vector_results[i].similarity_score : i \in 1..Len(vector_results)}
        IN  \A i \in 1..Len(final_results) :
                LET r == final_results[i]
                IN  /\ (r.bm25_score # NoInt /\ Cardinality(sparse_raw) > 1) =>
                          r.bm25_normalized = MinMaxOf(r.bm25_score, sparse_raw)
                    /\ (r.vector_score # NoInt /\ Cardinality(dense_raw) > 1) =>
                          r.vector_normalized = MinMaxOf(r.vector_score, dense_raw)

\* ----------------------------------------------------- claims, diversity
\* C23: with diversity on and more than one result, each returned result has
\* penalty diversity_factor*0.1*(strictly earlier results of the score-sorted
\* list with its section) + diversity_factor*0.05*(strictly earlier results
\* with its page), a result without a section or page taking no penalty for
\* it; the first result of the score-sorted list has penalty 0; every
\* adjusted score is the hybrid score discounted by the penalty, and the
\* returned order is descending in the adjusted score.
C23_DiversityPenalty ==
    (rank_pc = "returned" /\ diversity_factor > 0) =>
        LET sorted == RankSorted(bm25_results, vector_results, set_order)
            pos(id) == CHOOSE p \in 1..Len(sorted) : sorted[p].chunk_id = id
            earlier(p, field) ==
                Cardinality({j \in 1..(p - 1) : sorted[j][field] = sorted[p][field]})
            claimed(p) ==
                (IF sorted[p].section_ref \notin {None, ""}
                 THEN 10 * diversity_factor * earlier(p, "section_ref") ELSE 0)
                + (IF sorted[p].page_number # NoInt
                   THEN 5 * diversity_factor * earlier(p, "page_number") ELSE 0)
        IN  Len(sorted) > 1 =>
              /\ \A i \in 1..Len(final_results) :
                    LET r == final_results[i]
                    IN  /\ r.diversity_penalty = claimed(pos(r.chunk_id))
                        /\ pos(r.chunk_id) = 1 => r.diversity_penalty = 0
                        /\ r.adjusted_score =
                              (r.hybrid_score * (1000 - r.diversity_penalty)) \div 1000
              /\ \A i \in 1..(Len(final_results) - 1) :
                    final_results[i].adjusted_score >= final_results[i + 1].adjusted_score

\* C23 witness: three results of one section and page were ranked with the
\* strongest diversity factor; the third of the score-sorted list took the
\* penalty of two earlier results, 2*0.1 + 2*0.05, and the second one that of
\* one earlier result
C23_Witness ==
    /\ rank_pc = "returned"
    /\ diversity_factor = 10
    /\ Len(final_results) = 3
    /\ \A i \in 1..3 : final_results[i].section_ref = "s1" /\ final_results[i].page_number = 1
    /\ \E i, j, k \in 1..3 :
          /\ final_results[i].diversity_penalty = 0
          /\ final_results[j].diversity_penalty = 150
          /\ final_results[k].diversity_penalty = 300

\* --------------------------------------------------- claims, determinism
\* the chunk ids of a result list, in order
IdsOf(results) == Tuple([i \in 1..Len(results) |-> results[i].chunk_id])

\* C27 (as claimed): the chunk ids rank() returns, and their order, are fixed
\* by the input lists, limit and diversity_factor: whatever order the set of
\* chunk ids is iterated in, a call with a limit that is not negative
\* returns the same ids in the same order.
C27_RankDeterministic ==
    (rank_pc = "returned" /\ limit >= 0) =>
        \A order \in Orderings(AllChunkIds(bm25_results, vector_results)) :
            IdsOf(LimitResults(Diversify(RankSorted(bm25_results, vector_results, order),
                                         diversity_factor), limit))
            = IdsOf(final_results)

\* ------------------------------------------------------------ claims, quiz
\* C30 (as claimed): under any interleaving of the submissions for one
\* attempt, at most one submit_quiz_answers call succeeds and the attempt's
\* results are stored at most once.
C30_CompletedAtMostOnce ==
    /\ Cardinality({s \in DOMAIN sub_result : sub_result[s] = "success"}) <= 1
    /\ quiz_answer_batches <= 1

====
